---- MODULE Spec2Model ----
(***************************************************************************)
(* A model of the core of the tigris document database server:             *)
(*   - the primary-index metadata store (server/metadata/primary_index.go) *)
(*   - the key generator               (server/metadata/primary_index.go)  *)
(*   - the key codec                   (keys package)                      *)
(*   - the secondary-index planner and reader                              *)
(*                       (server/services/v1/database/secondary_index_reader.go) *)
(* Each subsystem has its own specification (MetaSpec, ReaderSpec, ...)    *)
(* over the shared variables; a subsystem's actions leave the variables of *)
(* the others unchanged.                                                   *)
(***************************************************************************)
EXTENDS Integers, Sequences, FiniteSets, TLC

(***************************************************************************)
(* Bounds of the model.                                                    *)
(***************************************************************************)
\* Index ids handed to insert / Update range over 1..MaxId.
MaxId == 2
\* The two keys handed to the codec have at most MaxPairParts parts in total.
MaxPairParts == 3
\* The index iterator of the reader holds at most MaxHits rows.
MaxHits == 3
\* The reader's Next is called at most MaxCalls times.
MaxCalls == 4
\* A query has at most MaxFilters leaf filters.
MaxFilters == 2
\* A primary index has at most MaxKeyFields fields.
MaxKeyFields == 2

(***************************************************************************)
(* Error kinds (errors package).  OK stands for a nil error.               *)
(***************************************************************************)
OK == "ok"
InvalidArgument == "InvalidArgument"
NotFound == "NotFound"
Conflict == "Conflict"
Internal == "Internal"
\* An error of the tuple layer (not an api error).
ErrDecode == "decodeError"

VARIABLES
    kv,        \* the metadata rows of the transaction: key tuple -> TableData
    metaRes,   \* the last PrimaryIndexSubspace call: its arguments and result
    inserted,  \* history: call arguments -> the metadata of their last successful
               \* insert, kept until an Update, delete or softDelete of the name
    fresh      \* history: every successful insert and Update so far wrote an id
               \* above every id stored at the time

VARIABLES
    ck1, ck2,  \* the two keys handed to the key codec
    codecRes   \* what the codec returned for them

VARIABLES
    rIndex,    \* the rows the index iterator (kvIter) yields: serialized keys, in order
    rPrimary,  \* the primary rows the transaction sees: serialized key -> document
    rPos,      \* how many rows kvIter has yielded
    rKvErr,    \* kvIter.Interrupted()
    rErr,      \* SecondaryIndexReaderImpl.err
    rLast,     \* the last call of Next: what it returned and what it touched
    rEmitted,  \* history: the rows Next has emitted
    rCalls     \* history: the number of calls of Next

VARIABLES
    pColl,     \* the collection handed to the planner: its queryable fields, in order
    pFilters,  \* the leaf filters handed to the planner
    pRes       \* what BuildSecondaryIndexKeys returned

VARIABLES
    gIndex,    \* the fields of the primary index, in order
    gInput,    \* the caller's document: field name -> JSON value
    gCounter,  \* the per-table counter of the TableKeyGenerator
    gen,       \* the key generators: run -> its state and result
    gIssued    \* history: the counter values handed out, in order, with their run

VARIABLES
    rtStream,    \* the ids of the messages of the channel's stream, in stream order
    rtInclusive, \* whether channel.Read yields the message at pos itself
    rtStart,     \* req.GetStart()
    rtLimit,     \* req.GetLimit()
    rtStatus,    \* where Run is: "idle", "reading", "sending" or "returned"
    rtPos,       \* pos
    rtCount,     \* count
    rtBatch,     \* the messages of resp not yet visited by the inner loop
    rtId,        \* id: the id of the last message of resp that was sent
    rtErr,       \* the error Run returned
    rtSent       \* history: the ids sent to the stream of the response, in order

metaVars == <<kv, metaRes, inserted, fresh>>
codecVars == <<ck1, ck2, codecRes>>
readerVars == <<rIndex, rPrimary, rPos, rKvErr, rErr, rLast, rEmitted, rCalls>>
planVars == <<pColl, pFilters, pRes>>
genVars == <<gIndex, gInput, gCounter, gen, gIssued>>
rtVars == <<rtStream, rtInclusive, rtStart, rtLimit, rtStatus, rtPos, rtCount, rtBatch, rtId,
            rtErr, rtSent>>
vars == <<metaVars, codecVars, readerVars, planVars, genVars, rtVars>>
\* The variables the actions of one subsystem leave alone.
nonMetaVars == <<codecVars, readerVars, planVars, genVars, rtVars>>
nonCodecVars == <<metaVars, readerVars, planVars, genVars, rtVars>>
nonReaderVars == <<metaVars, codecVars, planVars, genVars, rtVars>>
nonPlanVars == <<metaVars, codecVars, readerVars, genVars, rtVars>>
nonGenVars == <<metaVars, codecVars, readerVars, planVars, rtVars>>
nonRtVars == <<metaVars, codecVars, readerVars, planVars, genVars>>

(***************************************************************************)
(* Metadata keys and values.                                               *)
(***************************************************************************)
\* encKeyVersion, the single byte of metadataSubspace.KeyVersion.
encKeyVersion == 1
\* The kind tag of index metadata keys and the two terminators.
indexKey == "index"
keyEnd == "keyEnd"
keyDroppedEnd == "keyDroppedEnd"
\* const indexMetaValueVersion int32 = 1
indexMetaValueVersion == 1

\* Index names; "" is the invalid (empty) name.
Names == {"", "x", "y"}
\* The coordinates (nsID, dbID, collID) of the calls: the collection (1, 1, 1)
\* and the three ways of passing the invalid id 0.
Coords == {<<1, 1, 1>>, <<0, 1, 1>>, <<1, 0, 1>>, <<1, 1, 0>>}
\* The (coordinates, name) of the calls that take a name: the valid ones, and
\* the invalid ones (the empty name, and "x" under each invalid coordinate).
ValidArgs == {<<1, 1, 1, n>> : n \in Names \ {""}}
InvalidArgs == {<<1, 1, 1, "">>, <<0, 1, 1, "x">>, <<1, 0, 1, "x">>, <<1, 1, 0, "x">>}
CallArgs == ValidArgs \cup InvalidArgs

\* UInt32ToByte: the big-endian four bytes of a uint32.
UInt32ToByte(n) ==
    << (n \div 16777216) % 256, (n \div 65536) % 256, (n \div 256) % 256, n % 256 >>

\* ByteToUInt32: the uint32 of four big-endian bytes.
ByteToUInt32(b) ==
    b[1] * 16777216 + b[2] * 65536 + b[3] * 256 + b[4]

\* A *PrimaryIndexMetadata argument: nil, or a pointer to {ID, Name}.
NilMetadata == [nil |-> TRUE, ID |-> 0, Name |-> ""]
Metadata(id, name) == [nil |-> FALSE, ID |-> id, Name |-> name]

\* jsoniter.Marshal of a PrimaryIndexMetadata: the object {"id":..,"name":..}
\* as its member list.  rawData is [bin, json]: bin holds raw bytes (a legacy
\* value), json the members of a JSON text.
jsonMarshal(md) ==
    [bin |-> <<>>,
     json |-> << [k |-> "id", t |-> "num", n |-> md.ID, s |-> ""],
                 [k |-> "name", t |-> "str", n |-> 0, s |-> md.Name] >>]

\* A legacy value: exactly four raw bytes, the big-endian id.
legacyRaw(id) == [bin |-> UInt32ToByte(id), json |-> <<>>]

\* jsoniter.Unmarshal into PrimaryIndexMetadata: fails when the bytes are no
\* JSON object or a member has the wrong type; a missing member keeps the
\* zero value.
jsonMember(members, key, type) ==
    LET hits == {i \in 1..Len(members) : members[i].k = key}
    IN  IF hits = {} THEN [found |-> FALSE, bad |-> FALSE, n |-> 0, s |-> ""]
        ELSE LET m == members[CHOOSE i \in hits : \A j \in hits : j <= i]
             IN  [found |-> TRUE, bad |-> m.t # type, n |-> m.n, s |-> m.s]

jsonUnmarshal(rawData) ==
    IF rawData.json = <<>> THEN [err |-> Internal, md |-> NilMetadata]
    ELSE LET id == jsonMember(rawData.json, "id", "num")
             nm == jsonMember(rawData.json, "name", "str")
         IN  IF id.bad \/ nm.bad THEN [err |-> Internal, md |-> NilMetadata]
             ELSE [err |-> OK, md |-> Metadata(id.n, nm.s)]

\* internal.TableData (ver, rawData).
TableData(ver, rawData) == [ver |-> ver, rawData |-> rawData]

\* The value read for an absent key.
NoData == TableData(0 - 1, [bin |-> <<>>, json |-> <<>>])

(***************************************************************************)
(* The transaction facade over the metadata rows (spec 4.2).               *)
(***************************************************************************)
\* insert(table, key, data): fails if the key exists.
txInsert(rows, key, data) ==
    IF key \in DOMAIN rows THEN [kv |-> rows, err |-> Conflict]
    ELSE [kv |-> rows @@ (key :> data), err |-> OK]

\* replace(table, key, data, isUpdate): overwrites; isUpdate requires the key.
txReplace(rows, key, data, isUpdate) ==
    IF isUpdate /\ key \notin DOMAIN rows THEN [kv |-> rows, err |-> NotFound]
    ELSE [kv |-> [k \in DOMAIN rows \cup {key} |-> IF k = key THEN data ELSE rows[k]],
          err |-> OK]

\* delete(table, key): idempotent removal.
txDelete(rows, key) ==
    [kv |-> [k \in DOMAIN rows \ {key} |-> rows[k]], err |-> OK]

\* read(table, key): the point read; found is FALSE for an absent key.
txRead(rows, key) ==
    IF key \in DOMAIN rows THEN [found |-> TRUE, data |-> rows[key]]
    ELSE [found |-> FALSE, data |-> NoData]

(***************************************************************************)
(* metadataSubspace: the generic CRUD the store is built on (spec 4.3).    *)
(* Each operation takes the error of validateArgs first and returns it     *)
(* before touching the transaction.                                        *)
(***************************************************************************)
\* The result of an operation that went to the transaction.
usedTx(r) == [kv |-> r.kv, err |-> r.err, used |-> TRUE]

insertMetadata(rows, invalidArgs, key, ver, md) ==
    IF invalidArgs # OK THEN [kv |-> rows, err |-> invalidArgs, used |-> FALSE]
    ELSE usedTx(txInsert(rows, key, TableData(ver, jsonMarshal(md))))

getPayload(rows, invalidArgs, key) ==
    IF invalidArgs # OK
    THEN [err |-> invalidArgs, found |-> FALSE, data |-> NoData, used |-> FALSE]
    ELSE LET r == txRead(rows, key)
         IN  [err |-> OK, found |-> r.found, data |-> r.data, used |-> TRUE]

updateMetadata(rows, invalidArgs, key, ver, md) ==
    IF invalidArgs # OK THEN [kv |-> rows, err |-> invalidArgs, used |-> FALSE]
    ELSE usedTx(txReplace(rows, key, TableData(ver, jsonMarshal(md)), TRUE))

deleteMetadata(rows, invalidArgs, key) ==
    IF invalidArgs # OK THEN [kv |-> rows, err |-> invalidArgs, used |-> FALSE]
    ELSE usedTx(txDelete(rows, key))

\* softDeleteMetadata(oldKey, newKey): the row of oldKey is rewritten under
\* newKey, its value kept.
softDeleteMetadata(rows, invalidArgs, key, newKey) ==
    IF invalidArgs # OK THEN [kv |-> rows, err |-> invalidArgs, used |-> FALSE]
    ELSE LET r == txRead(rows, key)
         IN  IF ~r.found THEN [kv |-> rows, err |-> NotFound, used |-> TRUE]
             ELSE usedTx(txReplace(txDelete(rows, key).kv, newKey, r.data, FALSE))

\* Whether key starts with prefix.
hasPrefix(key, prefix) ==
    /\ Len(key) >= Len(prefix)
    /\ \A i \in 1..Len(prefix) : key[i] = prefix[i]

\* listMetadata(prefix, nameOffset, visit): the rows under prefix, each as the
\* arguments of visit: dropped (by terminator), name (at nameOffset) and value.
listMetadata(rows, prefix, nameOffset) ==
    { [dropped |-> k[nameOffset] = keyDroppedEnd, name |-> k[nameOffset - 1], data |-> rows[k]] :
        k \in {q \in DOMAIN rows : hasPrefix(q, prefix) /\ Len(q) >= nameOffset} }

(***************************************************************************)
(* PrimaryIndexSubspace (server/metadata/primary_index.go).                *)
(***************************************************************************)
\* getKey: the prefix of a collection's index keys for an empty name, the
\* active key of the name otherwise.
getKey(nsID, dbID, collID, name) ==
    IF name = ""
    THEN <<encKeyVersion, UInt32ToByte(nsID), UInt32ToByte(dbID), UInt32ToByte(collID), indexKey>>
    ELSE <<encKeyVersion, UInt32ToByte(nsID), UInt32ToByte(dbID), UInt32ToByte(collID), indexKey,
           name, keyEnd>>

\* The newKey of softDelete: the key of the name with the dropped terminator.
droppedKey(nsID, dbID, collID, name) ==
    <<encKeyVersion, UInt32ToByte(nsID), UInt32ToByte(dbID), UInt32ToByte(collID), indexKey,
      name, keyDroppedEnd>>

\* validateArgs without the collID test.
validateArgs_noCollID(nsID, dbID, collID, name, checkMetadata, metadata) ==
    IF nsID = 0 \/ dbID = 0 THEN InvalidArgument
    ELSE IF name = "" THEN InvalidArgument
    ELSE IF checkMetadata /\ metadata.nil THEN InvalidArgument
    ELSE OK

validateArgs(nsID, dbID, collID, name, checkMetadata, metadata) ==
    IF nsID = 0 \/ dbID = 0 \/ collID = 0 THEN InvalidArgument
    ELSE IF name = "" THEN InvalidArgument
    ELSE IF checkMetadata /\ metadata.nil THEN InvalidArgument
    ELSE OK

insert(rows, nsID, dbID, collID, name, metadata) ==
    insertMetadata(rows,
                   validateArgs(nsID, dbID, collID, name, TRUE, metadata),
                   getKey(nsID, dbID, collID, name),
                   indexMetaValueVersion,
                   metadata)

\* decodeMetadata that decodes the id alone.
decodeMetadata_dropsName(name, payload) ==
    IF payload.ver = 0
    THEN [err |-> OK, md |-> Metadata(ByteToUInt32(payload.rawData.bin), "")]
    ELSE LET d == jsonUnmarshal(payload.rawData)
         IN  [err |-> d.err, md |-> IF d.err = OK THEN Metadata(d.md.ID, "") ELSE d.md]

\* decodeMetadata that JSON-decodes whatever the version.
decodeMetadata_noLegacy(name, payload) ==
    jsonUnmarshal(payload.rawData)

decodeMetadata(name, payload) ==
    IF payload.ver = 0
    THEN [err |-> OK, md |-> Metadata(ByteToUInt32(payload.rawData.bin), "")]
    ELSE jsonUnmarshal(payload.rawData)

Get(rows, nsID, dbID, collID, name) ==
    LET p == getPayload(rows,
                        validateArgs(nsID, dbID, collID, name, FALSE, NilMetadata),
                        getKey(nsID, dbID, collID, name))
    IN  IF p.err # OK THEN [err |-> p.err, md |-> NilMetadata, used |-> p.used]
        ELSE IF ~p.found THEN [err |-> NotFound, md |-> NilMetadata, used |-> p.used]
        ELSE LET d == decodeMetadata(name, p.data)
             IN  [err |-> d.err, md |-> d.md, used |-> p.used]

\* Update writing the legacy version.
Update_legacyVersion(rows, nsID, dbID, collID, name, metadata) ==
    updateMetadata(rows,
                   validateArgs(nsID, dbID, collID, name, TRUE, metadata),
                   getKey(nsID, dbID, collID, name),
                   0,
                   metadata)

Update(rows, nsID, dbID, collID, name, metadata) ==
    updateMetadata(rows,
                   validateArgs(nsID, dbID, collID, name, TRUE, metadata),
                   getKey(nsID, dbID, collID, name),
                   indexMetaValueVersion,
                   metadata)

delete(rows, nsID, dbID, collID, name) ==
    deleteMetadata(rows,
                   validateArgs(nsID, dbID, collID, name, FALSE, NilMetadata),
                   getKey(nsID, dbID, collID, name))

\* softDelete whose newKey carries the active terminator.
softDelete_activeTerminator(rows, nsID, dbID, collID, name) ==
    softDeleteMetadata(rows,
                       validateArgs(nsID, dbID, collID, name, FALSE, NilMetadata),
                       getKey(nsID, dbID, collID, name),
                       getKey(nsID, dbID, collID, name))

softDelete(rows, nsID, dbID, collID, name) ==
    softDeleteMetadata(rows,
                       validateArgs(nsID, dbID, collID, name, FALSE, NilMetadata),
                       getKey(nsID, dbID, collID, name),
                       droppedKey(nsID, dbID, collID, name))

\* The empty map[string]*PrimaryIndexMetadata.
EmptyIndexes == [n \in {} |-> NilMetadata]

\* The retrogression check with a strict comparison.
retrogression_strict(droppedValue, createdID) == droppedValue > createdID

\* The comparison of the retrogression check of list.
retrogression(droppedValue, createdID) == droppedValue >= createdID

\* list: folds the rows of the collection into indexes and droppedIndexes,
\* then runs the retrogression check.
list(rows, namespaceId, dbID, collId) ==
    LET visits == listMetadata(rows, getKey(namespaceId, dbID, collId, ""), 7)
        m(v) == decodeMetadata(v.name, v.data)
        live == {v \in visits : ~v.dropped}
        gone == {v \in visits : v.dropped}
        indexes == [n \in {v.name : v \in live} |->
                        m(CHOOSE v \in live : v.name = n).md]
        droppedIndexes == [n \in {v.name : v \in gone} |->
                        m(CHOOSE v \in gone : v.name = n).md.ID]
    IN  IF \E v \in visits : m(v).err # OK
        THEN [err |-> Internal, retro |-> FALSE, indexes |-> EmptyIndexes]
        ELSE IF \E droppedC \in DOMAIN droppedIndexes :
                    /\ droppedC \in DOMAIN indexes
                    /\ retrogression(droppedIndexes[droppedC], indexes[droppedC].ID)
        THEN [err |-> Internal, retro |-> TRUE, indexes |-> EmptyIndexes]
        ELSE [err |-> OK, retro |-> FALSE, indexes |-> indexes]

(***************************************************************************)
(* The metadata store as a state machine: one action per operation.        *)
(***************************************************************************)
\* The metadata arguments tried with the call arguments a: {id, name} for every
\* id with valid arguments, nil with <<1, 1, 1, "x">>, one record with invalid ones.
MetaInputs(a) ==
    IF a \in ValidArgs
    THEN {Metadata(id, a[4]) : id \in 1..MaxId}
            \cup (IF a[4] = "x" THEN {NilMetadata} ELSE {})
    ELSE {Metadata(1, a[4])}

\* The record of a call: the operation, its arguments, and what it returned
\* (err; md of Get; indexes of list), with used: whether the call went to the
\* transaction, and retro: whether list failed its retrogression check.
Result(op, a, metadata, err, used, md, indexes, retro) ==
    [op |-> op, nsID |-> a[1], dbID |-> a[2], collID |-> a[3], name |-> a[4],
     metadata |-> metadata, err |-> err, used |-> used, md |-> md,
     indexes |-> indexes, retro |-> retro]

\* The id a stored value decodes to.
storedId(data) == decodeMetadata("", data).md.ID

\* The largest id stored in the rows, 0 when there is none.
MaxStoredId(rows) ==
    IF DOMAIN rows = {} THEN 0
    ELSE LET ids == {storedId(rows[k]) : k \in DOMAIN rows}
         IN  CHOOSE i \in ids : \A j \in ids : j <= i

\* fresh after a write of metadata that returned err.
freshAfter(err, metadata) ==
    fresh /\ (err = OK => metadata.ID > MaxStoredId(kv))

\* The history without the call arguments a.
forget(h, a) == [k \in DOMAIN h \ {a} |-> h[k]]

\* The store starts empty, or holds one legacy (ver 0) record of index "x".
MetaInit ==
    /\ kv \in {[k \in {} |-> NoData]} \cup
              {(getKey(1, 1, 1, "x") :> TableData(0, legacyRaw(1)))}
    /\ metaRes = Result("none", <<1, 1, 1, "x">>, NilMetadata, OK, FALSE, NilMetadata,
                        EmptyIndexes, FALSE)
    /\ inserted = [k \in {} |-> NilMetadata]
    /\ fresh = TRUE

InsertOp ==
    \E a \in CallArgs : \E metadata \in MetaInputs(a) :
        LET r == insert(kv, a[1], a[2], a[3], a[4], metadata)
        IN  /\ kv' = r.kv
            /\ metaRes' = Result("insert", a, metadata, r.err, r.used, NilMetadata,
                                 EmptyIndexes, FALSE)
            /\ inserted' = IF r.err = OK
                           THEN [k \in DOMAIN inserted \cup {a} |->
                                    IF k = a THEN metadata ELSE inserted[k]]
                           ELSE inserted
            /\ fresh' = freshAfter(r.err, metadata)
            /\ UNCHANGED nonMetaVars

GetOp ==
    \E a \in CallArgs :
        LET r == Get(kv, a[1], a[2], a[3], a[4])
        IN  /\ metaRes' = Result("get", a, NilMetadata, r.err, r.used, r.md,
                                 EmptyIndexes, FALSE)
            /\ UNCHANGED <<kv, inserted, fresh, nonMetaVars>>

UpdateOp ==
    \E a \in CallArgs : \E metadata \in MetaInputs(a) :
        LET r == Update(kv, a[1], a[2], a[3], a[4], metadata)
        IN  /\ kv' = r.kv
            /\ metaRes' = Result("update", a, metadata, r.err, r.used, NilMetadata,
                                 EmptyIndexes, FALSE)
            /\ inserted' = forget(inserted, a)
            /\ fresh' = freshAfter(r.err, metadata)
            /\ UNCHANGED nonMetaVars

DeleteOp ==
    \E a \in CallArgs :
        LET r == delete(kv, a[1], a[2], a[3], a[4])
        IN  /\ kv' = r.kv
            /\ metaRes' = Result("delete", a, NilMetadata, r.err, r.used, NilMetadata,
                                 EmptyIndexes, FALSE)
            /\ inserted' = forget(inserted, a)
            /\ UNCHANGED <<fresh, nonMetaVars>>

SoftDeleteOp ==
    \E a \in CallArgs :
        LET r == softDelete(kv, a[1], a[2], a[3], a[4])
        IN  /\ kv' = r.kv
            /\ metaRes' = Result("softDelete", a, NilMetadata, r.err, r.used, NilMetadata,
                                 EmptyIndexes, FALSE)
            /\ inserted' = forget(inserted, a)
            /\ UNCHANGED <<fresh, nonMetaVars>>

\* list takes no name: the record holds the empty name.
ListOp ==
    \E c \in Coords :
        LET r == list(kv, c[1], c[2], c[3])
        IN  /\ metaRes' = Result("list", <<c[1], c[2], c[3], "">>, NilMetadata, r.err, TRUE,
                                 NilMetadata, r.indexes, r.retro)
            /\ UNCHANGED <<kv, inserted, fresh, nonMetaVars>>

\* Reading what other writers stored: a JSON text whose "id" member is a
\* string, which does not decode into PrimaryIndexMetadata, and a JSON object
\* without a "name" member, which does.
undecodableJson ==
    [bin |-> <<>>, json |-> << [k |-> "id", t |-> "str", n |-> 0, s |-> "7"] >>]
idOnlyJson(id) ==
    [bin |-> <<>>, json |-> << [k |-> "id", t |-> "num", n |-> id, s |-> ""] >>]

\* The ids of stored records: one of one byte, one of two bytes.
StoredIds == {1, 258}

\* The values a stored record can hold: legacy records, records of the
\* current and of a later version, and records of ver >= 1 whose payload is
\* four raw bytes or is JSON of the wrong shape.
StoredPayloads ==
    {TableData(0, legacyRaw(id)) : id \in StoredIds}
        \cup {TableData(v, jsonMarshal(Metadata(id, n))) :
                 v \in {1, 2}, id \in StoredIds, n \in {"x", "y"}}
        \cup {TableData(v, idOnlyJson(2)) : v \in {1, 2}}
        \cup {TableData(v, legacyRaw(1)) : v \in {1, 2}}
        \cup {TableData(v, undecodableJson) : v \in {1, 2}}

\* The store holds a record of "x", active or dropped, of any stored value,
\* alone or beside an active record of "y".
StoredInit ==
    /\ \E k \in {getKey(1, 1, 1, "x"), droppedKey(1, 1, 1, "x")} :
         \E d \in StoredPayloads :
            \/ kv = (k :> d)
            \/ \E e \in StoredPayloads : kv = (k :> d) @@ (getKey(1, 1, 1, "y") :> e)
    /\ metaRes = Result("none", <<1, 1, 1, "x">>, NilMetadata, OK, FALSE, NilMetadata,
                        EmptyIndexes, FALSE)
    /\ inserted = [k \in {} |-> NilMetadata]
    /\ fresh = TRUE

(***************************************************************************)
(* Properties of the metadata store.                                       *)
(***************************************************************************)
\* The names of collection c stored both as a dropped and as an active record.
DroppedAndActive(rows, c) ==
    {n \in Names \ {""} : /\ droppedKey(c[1], c[2], c[3], n) \in DOMAIN rows
                          /\ getKey(c[1], c[2], c[3], n) \in DOMAIN rows}

\* dropped.id < active.id for every name of c present as both.
NoRetrogression(rows, c) ==
    \A n \in DroppedAndActive(rows, c) :
        storedId(rows[droppedKey(c[1], c[2], c[3], n)]) < storedId(rows[getKey(c[1], c[2], c[3], n)])

\* C2 as stated: the retrogression invariant holds in every reachable state,
\* whatever insert, Update, softDelete and delete calls led to it.
C2_RetrogressionInvariant == NoRetrogression(kv, <<1, 1, 1>>)

\* C2 amended: the store does not enforce the retrogression invariant (insert
\* and Update write the id they are given); it holds as long as every
\* successful insert and Update wrote an id strictly greater than every id
\* stored at the time, and in every state in which list succeeds.
C2_RetrogressionWhenFresh ==
    /\ fresh => NoRetrogression(kv, <<1, 1, 1>>)
    /\ (metaRes.op = "list" /\ metaRes.err = OK) =>
          NoRetrogression(kv, <<metaRes.nsID, metaRes.dbID, metaRes.collID>>)

\* C2 witness: a name soft-deleted and recreated with a larger id, listed.
C2_Witness ==
    /\ fresh
    /\ metaRes.op = "list" /\ metaRes.err = OK /\ metaRes.collID = 1
    /\ DroppedAndActive(kv, <<1, 1, 1>>) # {}

\* C3: list fails with the retrogression error if and only if some name of the
\* collection is stored both dropped and active with dropped id >= active id.
C3_ListRetrogressionIff ==
    metaRes.op = "list" =>
        LET c == <<metaRes.nsID, metaRes.dbID, metaRes.collID>>
        IN  /\ (metaRes.err = Internal) <=> ~NoRetrogression(kv, c)
            /\ metaRes.retro <=> (metaRes.err = Internal)
            /\ metaRes.err \in {OK, Internal}

\* C3 witness: list has failed on a name recreated with the id it was dropped with.
C3_Witness ==
    /\ metaRes.op = "list" /\ metaRes.err = Internal /\ metaRes.retro
    /\ \E n \in DroppedAndActive(kv, <<1, 1, 1>>) :
          storedId(kv[droppedKey(1, 1, 1, n)]) = storedId(kv[getKey(1, 1, 1, n)])

\* Get returns the metadata last inserted under a.
GetReturnsInserted(a) ==
    LET g == Get(kv, a[1], a[2], a[3], a[4])
    IN  g.err = OK /\ g.md = inserted[a]

\* list maps the name of a to the metadata last inserted under a.
ListReturnsInserted(a) ==
    LET l == list(kv, a[1], a[2], a[3])
    IN  l.err = OK /\ a[4] \in DOMAIN l.indexes /\ l.indexes[a[4]] = inserted[a]

\* C4 as stated: after a successful insert of a name, with no later Update,
\* delete or softDelete of it, list maps the name to the inserted record and Get
\* returns the inserted record.
C4_RoundTrip ==
    \A a \in DOMAIN inserted : GetReturnsInserted(a) /\ ListReturnsInserted(a)

\* C4 amended: Get returns the inserted record, and list maps the name to it
\* unless list fails with the retrogression error (some name of the collection
\* is stored dropped with an id >= its active id).
C4_RoundTripUnlessRetrogression ==
    \A a \in DOMAIN inserted :
        /\ GetReturnsInserted(a)
        /\ \/ ListReturnsInserted(a)
           \/ /\ list(kv, a[1], a[2], a[3]).retro
              /\ ~NoRetrogression(kv, <<a[1], a[2], a[3]>>)

\* C4 witness: two names inserted, one of them after a soft delete, and listed.
C4_Witness ==
    /\ Cardinality(DOMAIN inserted) = 2
    /\ DroppedAndActive(kv, <<1, 1, 1>>) # {}
    /\ \A a \in DOMAIN inserted : ListReturnsInserted(a)

\* The call recorded in r had a zero coordinate or, taking a name, an empty one.
InvalidCall(r) ==
    /\ r.op # "none"
    /\ \/ r.nsID = 0 \/ r.dbID = 0 \/ r.collID = 0
       \/ r.op # "list" /\ r.name = ""

\* C5 as stated: every operation, list included, called with a zero coordinate
\* (or an empty name) fails with InvalidArgument before it reads anything and
\* leaves the store unchanged.
C5_AllOpsValidate ==
    [][InvalidCall(metaRes') =>
          /\ metaRes'.err = InvalidArgument
          /\ ~metaRes'.used
          /\ kv' = kv]_vars

\* C5 amended: insert, Get, Update, delete and softDelete validate as stated;
\* list validates nothing: with a zero coordinate it scans the prefix, is never
\* rejected with InvalidArgument, and leaves the store unchanged.
C5_NameOpsValidate ==
    [][ /\ (InvalidCall(metaRes') /\ metaRes'.op # "list") =>
              /\ metaRes'.err = InvalidArgument
              /\ ~metaRes'.used
              /\ kv' = kv
        /\ metaRes'.op = "list" =>
              /\ metaRes'.err # InvalidArgument
              /\ metaRes'.used
              /\ kv' = kv ]_vars

\* C5 witness: an insert with collID 0 was rejected while the store held a record.
C5_Witness ==
    /\ metaRes.op = "insert" /\ metaRes.collID = 0 /\ ~metaRes.metadata.nil
    /\ metaRes.err = InvalidArgument
    /\ DOMAIN kv # {}

\* The rows of rows2 outside the keys in except are those of rows1.
SameRowsExcept(rows1, rows2, except) ==
    /\ DOMAIN rows1 \ except = DOMAIN rows2 \ except
    /\ \A k \in DOMAIN rows1 \ except : rows2[k] = rows1[k]

\* C12: a successful softDelete of an active record removes the active key and
\* writes the dropped key with the id the active record had; afterwards Get of
\* the name returns NotFound, the result of list does not contain the name, and
\* the rows of every other name are unchanged.
C12_SoftDeleteMoves ==
    [][(/\ metaRes'.op = "softDelete" /\ metaRes'.err = OK
        /\ getKey(metaRes'.nsID, metaRes'.dbID, metaRes'.collID, metaRes'.name) \in DOMAIN kv) =>
          LET r == metaRes'
              active == getKey(r.nsID, r.dbID, r.collID, r.name)
              dropped == droppedKey(r.nsID, r.dbID, r.collID, r.name)
          IN  /\ active \notin DOMAIN kv'
              /\ dropped \in DOMAIN kv'
              /\ storedId(kv'[dropped]) = storedId(kv[active])
              /\ kv'[dropped] = kv[active]
              /\ Get(kv', r.nsID, r.dbID, r.collID, r.name).err = NotFound
              /\ r.name \notin DOMAIN list(kv', r.nsID, r.dbID, r.collID).indexes
              /\ SameRowsExcept(kv, kv', {active, dropped}) ]_vars

\* C12 witness: a softDelete succeeded while another name was active, and the
\* dropped record of the name holds an id.
C12_Witness ==
    /\ metaRes.op = "softDelete" /\ metaRes.err = OK
    /\ droppedKey(1, 1, 1, metaRes.name) \in DOMAIN kv
    /\ getKey(1, 1, 1, metaRes.name) \notin DOMAIN kv
    /\ storedId(kv[droppedKey(1, 1, 1, metaRes.name)]) >= 1
    /\ \E n \in Names \ {"", metaRes.name} : getKey(1, 1, 1, n) \in DOMAIN kv

\* C16: a successful insert or Update writes its record with the current
\* version (1, never 0), and no operation makes a ver 0 record: every ver 0
\* record stored after a step was stored, with the same value, before it.
C16_WritesNeverEmitVersion0 ==
    [][/\ (metaRes'.op \in {"insert", "update"} /\ metaRes'.err = OK) =>
            LET written == kv'[getKey(metaRes'.nsID, metaRes'.dbID, metaRes'.collID,
                                      metaRes'.name)]
            IN  /\ written.ver = indexMetaValueVersion
                /\ written.ver >= 1
                /\ written.rawData = jsonMarshal(metaRes'.metadata)
       /\ \A k \in DOMAIN kv' :
            kv'[k].ver = 0 => \E j \in DOMAIN kv : kv[j].ver = 0 /\ kv[j] = kv'[k] ]_vars

\* C16 witness: an Update succeeded on a name whose legacy (ver 0) record was
\* soft-deleted and which was inserted again; the legacy record is the only
\* one of ver 0.
C16_Witness ==
    /\ metaRes.op = "update" /\ metaRes.err = OK /\ metaRes.name = "x"
    /\ droppedKey(1, 1, 1, "x") \in DOMAIN kv
    /\ kv[droppedKey(1, 1, 1, "x")] = TableData(0, legacyRaw(1))
    /\ getKey(1, 1, 1, "x") \in DOMAIN kv
    /\ kv[getKey(1, 1, 1, "x")].ver = 1

\* The record Get and list are to return for the stored value data: decoded
\* is FALSE when the value does not decode.
Decoded(md) == [decoded |-> TRUE, md |-> md]
Undecodable == [decoded |-> FALSE, md |-> NilMetadata]
expectedRecord(data) ==
    IF data.ver = 0
    THEN Decoded(Metadata(data.rawData.bin[1] * 16777216 + data.rawData.bin[2] * 65536
                             + data.rawData.bin[3] * 256 + data.rawData.bin[4], ""))
    ELSE IF \E id \in StoredIds, n \in {"x", "y"} : data.rawData = jsonMarshal(Metadata(id, n))
    THEN Decoded(CHOOSE md \in {Metadata(id, n) : id \in StoredIds, n \in {"x", "y"}} :
                    data.rawData = jsonMarshal(md))
    ELSE IF data.rawData = idOnlyJson(2) THEN Decoded(Metadata(2, ""))
    ELSE Undecodable

\* C17: Get of a stored record of ver 0 returns the legacy record whose id is
\* the big-endian uint32 of the four raw bytes; Get of a record of ver >= 1
\* returns the {id, name} its JSON payload holds, and fails with Internal and
\* no record when the payload does not decode; list decodes each record the
\* same way and fails with Internal and no record when one does not decode.
C17_VersionDispatch ==
    /\ (metaRes.op = "get" /\ metaRes.used
            /\ getKey(metaRes.nsID, metaRes.dbID, metaRes.collID, metaRes.name) \in DOMAIN kv) =>
          LET e == expectedRecord(kv[getKey(metaRes.nsID, metaRes.dbID, metaRes.collID,
                                            metaRes.name)])
          IN  IF e.decoded THEN metaRes.err = OK /\ metaRes.md = e.md
              ELSE metaRes.err = Internal /\ metaRes.md = NilMetadata
    /\ (metaRes.op = "list" /\ metaRes.nsID = 1 /\ metaRes.dbID = 1 /\ metaRes.collID = 1) =>
          IF \E k \in DOMAIN kv : ~expectedRecord(kv[k]).decoded
          THEN metaRes.err = Internal /\ metaRes.indexes = EmptyIndexes /\ ~metaRes.retro
          ELSE metaRes.err = OK =>
                  \A n \in {"x", "y"} :
                      IF getKey(1, 1, 1, n) \in DOMAIN kv
                      THEN /\ n \in DOMAIN metaRes.indexes
                           /\ metaRes.indexes[n] = expectedRecord(kv[getKey(1, 1, 1, n)]).md
                      ELSE n \notin DOMAIN metaRes.indexes

\* C17 witness: Get returned the legacy record of id 258 (bytes 0, 0, 1, 2)
\* beside a record of ver 2 that holds four raw bytes.
C17_Witness ==
    /\ metaRes.op = "get" /\ metaRes.err = OK /\ metaRes.name = "x"
    /\ metaRes.md = Metadata(258, "")
    /\ kv[getKey(1, 1, 1, "x")] = TableData(0, legacyRaw(258))
    /\ getKey(1, 1, 1, "y") \in DOMAIN kv
    /\ kv[getKey(1, 1, 1, "y")] = TableData(2, legacyRaw(1))

(***************************************************************************)
(* The key codec (keys package): tableKey over the tuple layer.            *)
(* A byte string is a sequence of 0..255.  A part is [t, n, b]: an integer *)
(* n (t = "int"), a byte array b (t = "bytes") or a string of bytes b      *)
(* (t = "str").                                                            *)
(***************************************************************************)
IntPart(n) == [t |-> "int", n |-> n, b |-> <<>>]
BytesPart(b) == [t |-> "bytes", n |-> 0, b |-> b]
StrPart(b) == [t |-> "str", n |-> 0, b |-> b]

\* NewKey(table, indexParts...)
NewKey(table, indexParts) == [table |-> table, indexParts |-> indexParts]

\* Type codes of the tuple layer.
bytesCode == 1
stringCode == 2
intZeroCode == 20

\* 256^n
RECURSIVE pow256(_)
pow256(n) == IF n = 0 THEN 1 ELSE 256 * pow256(n - 1)

\* The number of bytes of a positive integer.
RECURSIVE byteLen(_)
byteLen(n) == IF n < 256 THEN 1 ELSE 1 + byteLen(n \div 256)

\* The nb big-endian bytes of n.
RECURSIVE bigEndian(_, _)
bigEndian(n, nb) ==
    IF nb = 0 THEN <<>> ELSE Append(bigEndian(n \div 256, nb - 1), n % 256)

\* The integer of big-endian bytes.
RECURSIVE fromBigEndian(_)
fromBigEndian(b) ==
    IF b = <<>> THEN 0
    ELSE 256 * fromBigEndian(SubSeq(b, 1, Len(b) - 1)) + b[Len(b)]

\* A byte string with every 0x00 written as 0x00 0xFF.
RECURSIVE escapeNulls(_)
escapeNulls(b) ==
    IF b = <<>> THEN <<>>
    ELSE (IF b[1] = 0 THEN <<0, 255>> ELSE <<b[1]>>) \o escapeNulls(Tail(b))

\* encodeInt: the type code tells sign and length; a negative integer is
\* written offset by 256^n - 1.
encodeInt(i) ==
    IF i = 0 THEN <<intZeroCode>>
    ELSE IF i > 0
    THEN <<intZeroCode + byteLen(i)>> \o bigEndian(i, byteLen(i))
    ELSE LET n == byteLen(0 - i)
         IN  <<intZeroCode - n>> \o bigEndian(pow256(n) - 1 + i, n)

\* One element of a packed tuple.
encodeElem(e) ==
    IF e.t = "int" THEN encodeInt(e.n)
    ELSE IF e.t = "bytes" THEN <<bytesCode>> \o escapeNulls(e.b) \o <<0>>
    ELSE <<stringCode>> \o escapeNulls(e.b) \o <<0>>

\* tuple.Pack
RECURSIVE packTuple(_)
packTuple(t) ==
    IF t = <<>> THEN <<>> ELSE encodeElem(t[1]) \o packTuple(Tail(t))

\* subspace.Pack: the prefix, then the packed tuple.
subspacePack(prefix, t) == prefix \o packTuple(t)

\* SerializeToBytes without the table prefix.
SerializeToBytes_noTable(p) ==
    IF Len(p.indexParts) = 0 THEN p.table
    ELSE packTuple(p.indexParts)

\* tableKey.SerializeToBytes
SerializeToBytes(p) ==
    IF Len(p.indexParts) = 0 THEN p.table
    ELSE subspacePack(p.table, p.indexParts)

\* bytes.Compare: -1, 0 or +1 by lexicographic order.
bytesCompare(a, b) ==
    LET n == IF Len(a) < Len(b) THEN Len(a) ELSE Len(b)
        diff == {i \in 1..n : a[i] # b[i]}
    IN  IF diff = {}
        THEN (IF Len(a) < Len(b) THEN 0 - 1 ELSE IF Len(a) > Len(b) THEN 1 ELSE 0)
        ELSE LET i == CHOOSE x \in diff : \A y \in diff : x <= y
             IN  IF a[i] < b[i] THEN 0 - 1 ELSE 1

\* tableKey.CompareBytes
CompareBytes(p, input) == bytesCompare(SerializeToBytes(p), input)

\* The index of the 0x00 that ends the byte string starting at b[i] (a 0x00
\* followed by 0xFF is an escaped zero), or 0 when the input ends before it.
RECURSIVE findTerminator(_, _)
findTerminator(b, i) ==
    IF i > Len(b) THEN 0
    ELSE IF b[i] # 0 THEN findTerminator(b, i + 1)
    ELSE IF i < Len(b) /\ b[i + 1] = 255 THEN findTerminator(b, i + 2)
    ELSE i

\* The escaped byte string b with every 0x00 0xFF read back as 0x00.
RECURSIVE unescapeNulls(_)
unescapeNulls(b) ==
    IF b = <<>> THEN <<>>
    ELSE IF b[1] = 0 /\ Len(b) >= 2 /\ b[2] = 255
    THEN <<0>> \o unescapeNulls(SubSeq(b, 3, Len(b)))
    ELSE <<b[1]>> \o unescapeNulls(Tail(b))

\* tuple.Unpack from b[i] on: the elements, or an error on an unknown type
\* code or a truncated element.
RECURSIVE unpackFrom(_, _)
unpackFrom(b, i) ==
    IF i > Len(b) THEN [err |-> OK, t |-> <<>>]
    ELSE LET code == b[i] IN
      IF code \in {bytesCode, stringCode}
      THEN LET end == findTerminator(b, i + 1)
           IN  IF end = 0 THEN [err |-> ErrDecode, t |-> <<>>]
               ELSE LET raw == unescapeNulls(SubSeq(b, i + 1, end - 1))
                        rest == unpackFrom(b, end + 1)
                        e == IF code = bytesCode THEN BytesPart(raw) ELSE StrPart(raw)
                    IN  [err |-> rest.err, t |-> IF rest.err = OK THEN <<e>> \o rest.t ELSE <<>>]
      ELSE IF code >= intZeroCode - 8 /\ code <= intZeroCode + 8
      THEN LET n == IF code >= intZeroCode THEN code - intZeroCode ELSE intZeroCode - code
           IN  IF i + n > Len(b) THEN [err |-> ErrDecode, t |-> <<>>]
               ELSE LET mag == fromBigEndian(SubSeq(b, i + 1, i + n))
                        v == IF code >= intZeroCode THEN mag ELSE mag - (pow256(n) - 1)
                        rest == unpackFrom(b, i + n + 1)
                    IN  [err |-> rest.err,
                         t |-> IF rest.err = OK THEN <<IntPart(v)>> \o rest.t ELSE <<>>]
      ELSE [err |-> ErrDecode, t |-> <<>>]

\* Whether the byte string b starts with prefix.
bytesHasPrefix(b, prefix) ==
    Len(b) >= Len(prefix) /\ SubSeq(b, 1, Len(prefix)) = prefix

\* subspace.Unpack: the key must start with the prefix; the rest is unpacked.
subspaceUnpack(prefix, key) ==
    IF ~bytesHasPrefix(key, prefix) THEN [err |-> ErrDecode, t |-> <<>>]
    ELSE unpackFrom(key, Len(prefix) + 1)

\* The nil Key.
NilKey == [nil |-> TRUE, key |-> NewKey(<<>>, <<>>)]

\* FromBinary that unpacks the whole key without its table.
FromBinary_noPrefix(table, fdbKey) ==
    LET tp == unpackFrom(fdbKey, Len(table) + 1)
    IN  IF tp.err # OK THEN [err |-> tp.err, nil |-> TRUE, key |-> NilKey.key]
        ELSE [err |-> OK, nil |-> FALSE, key |-> NewKey(table, tp.t)]

\* FromBinary
FromBinary(table, fdbKey) ==
    LET tp == subspaceUnpack(table, fdbKey)
    IN  IF tp.err # OK THEN [err |-> tp.err, nil |-> TRUE, key |-> NilKey.key]
        ELSE [err |-> OK, nil |-> FALSE, key |-> NewKey(table, tp.t)]

(***************************************************************************)
(* The codec as a state machine: two keys are drawn, then serialized and   *)
(* compared, then decoded.                                                 *)
(***************************************************************************)
\* The table prefixes tried: <<5, 21>> extends <<5>> by the type code of a
\* one-byte integer; <<6>> is unrelated to both.
CodecTables == {<<5>>, <<5, 21>>, <<6>>}

\* The parts tried: integers of either sign and of one and two bytes, byte
\* arrays with and without a zero byte, a string.
CodecParts ==
    {IntPart(0 - 256), IntPart(0 - 2), IntPart(0 - 1), IntPart(0), IntPart(3),
     BytesPart(<<>>), BytesPart(<<0>>), StrPart(<<97>>)}

\* The part lists of length n.
RECURSIVE PartLists(_)
PartLists(n) ==
    IF n = 0 THEN {<<>>}
    ELSE {Append(l, e) : l \in PartLists(n - 1), e \in CodecParts}

\* The lengths of the two part lists: at most MaxPairParts parts in total.
PairLens ==
    {m \in (0..MaxPairParts) \X (0..MaxPairParts) : m[1] + m[2] <= MaxPairParts}

CodecIdleRes ==
    [step |-> "none", b1 |-> <<>>, b2 |-> <<>>, cmp |-> 0,
     own |-> [err |-> OK, nil |-> TRUE, key |-> NilKey.key],
     other |-> [err |-> OK, nil |-> TRUE, key |-> NilKey.key]]

CodecInit ==
    /\ \E t1 \in CodecTables, t2 \in CodecTables, n \in PairLens :
          \E p1 \in PartLists(n[1]), p2 \in PartLists(n[2]) :
             /\ ck1 = NewKey(t1, p1)
             /\ ck2 = NewKey(t2, p2)
    /\ codecRes = CodecIdleRes

\* k1 and k2 are serialized and k1 is compared with the bytes of k2.
SerializeOp ==
    /\ codecRes.step = "none"
    /\ codecRes' = [codecRes EXCEPT !.step = "serialized",
                                    !.b1 = SerializeToBytes(ck1),
                                    !.b2 = SerializeToBytes(ck2),
                                    !.cmp = CompareBytes(ck1, SerializeToBytes(ck2))]
    /\ UNCHANGED <<ck1, ck2, nonCodecVars>>

\* The bytes of k1 are decoded with the table of k1 and with the table of k2.
DecodeOp ==
    /\ codecRes.step = "serialized"
    /\ codecRes' = [codecRes EXCEPT !.step = "decoded",
                                    !.own = FromBinary(ck1.table, codecRes.b1),
                                    !.other = FromBinary(ck2.table, codecRes.b1)]
    /\ UNCHANGED <<ck1, ck2, nonCodecVars>>

(***************************************************************************)
(* Properties of the codec.                                                *)
(***************************************************************************)
\* The order of two parts: byte arrays before strings before integers, then
\* by value (-1, 0, +1).
partCompare(x, y) ==
    LET rank(e) == IF e.t = "bytes" THEN 1 ELSE IF e.t = "str" THEN 2 ELSE 3
    IN  IF rank(x) # rank(y) THEN (IF rank(x) < rank(y) THEN 0 - 1 ELSE 1)
        ELSE IF x.t = "int"
        THEN (IF x.n < y.n THEN 0 - 1 ELSE IF x.n > y.n THEN 1 ELSE 0)
        ELSE bytesCompare(x.b, y.b)

\* The lexicographic order of two part lists.
partsCompare(p, q) ==
    LET n == IF Len(p) < Len(q) THEN Len(p) ELSE Len(q)
        diff == {i \in 1..n : partCompare(p[i], q[i]) # 0}
    IN  IF diff = {}
        THEN (IF Len(p) < Len(q) THEN 0 - 1 ELSE IF Len(p) > Len(q) THEN 1 ELSE 0)
        ELSE partCompare(p[CHOOSE x \in diff : \A y \in diff : x <= y],
                         q[CHOOSE x \in diff : \A y \in diff : x <= y])

\* The lexicographic order of (table, parts).
tupleCompare(k1, k2) ==
    IF bytesCompare(k1.table, k2.table) # 0 THEN bytesCompare(k1.table, k2.table)
    ELSE partsCompare(k1.indexParts, k2.indexParts)

\* Neither table is a proper prefix of the other.
PrefixFree(t1, t2) ==
    t1 = t2 \/ (~bytesHasPrefix(t1, t2) /\ ~bytesHasPrefix(t2, t1))

\* C9 as stated: for all keys, whatever their tables, the byte order of the
\* serialized keys is the order of (table, parts), and CompareBytes returns
\* -1, 0 or +1 accordingly.
C9_OrderPreserved ==
    codecRes.step # "none" =>
        /\ codecRes.cmp = tupleCompare(ck1, ck2)
        /\ bytesCompare(codecRes.b1, codecRes.b2) = tupleCompare(ck1, ck2)

\* C9 amended: the byte order of the serialized keys is the order of
\* (table, parts) for keys of one table and for keys whose tables are not a
\* proper prefix of one another; the table is written without a delimiter.
C9_OrderPreservedPrefixFree ==
    (codecRes.step # "none" /\ PrefixFree(ck1.table, ck2.table)) =>
        /\ codecRes.cmp = tupleCompare(ck1, ck2)
        /\ bytesCompare(codecRes.b1, codecRes.b2) = tupleCompare(ck1, ck2)
        /\ codecRes.cmp \in {0 - 1, 0, 1}

\* C9 witness: two keys of one table that differ in a negative integer part
\* after an equal byte-array part holding a zero byte.
C9_Witness ==
    /\ codecRes.step = "serialized"
    /\ ck1.table = ck2.table
    /\ Len(ck1.indexParts) = 2 /\ Len(ck2.indexParts) = 1
    /\ ck1.indexParts[1] = BytesPart(<<0>>) /\ ck2.indexParts[1] = BytesPart(<<>>)
    /\ ck1.indexParts[2] = IntPart(0 - 2)
    /\ codecRes.cmp = 1

\* C10: FromBinary of a key's bytes with the key's table returns the key's
\* parts; FromBinary with a table that is no prefix of the bytes returns an
\* error and no key.
C10_RoundTrip ==
    codecRes.step = "decoded" =>
        /\ codecRes.own.err = OK /\ ~codecRes.own.nil
        /\ codecRes.own.key.indexParts = ck1.indexParts
        /\ codecRes.own.key.table = ck1.table
        /\ ~bytesHasPrefix(codecRes.b1, ck2.table) =>
              (codecRes.other.err # OK /\ codecRes.other.nil)

\* C10 witness: a key with an escaped zero byte and a two-byte negative integer
\* decoded, and rejected under an unrelated table.
C10_Witness ==
    /\ codecRes.step = "decoded"
    /\ ck1.indexParts = <<BytesPart(<<0>>), IntPart(0 - 256)>>
    /\ ck2.table = <<6>> /\ ck1.table = <<5>>
    /\ codecRes.other.err # OK /\ codecRes.own.err = OK

(***************************************************************************)
(* The secondary-index reader (secondary_index_reader.go).                 *)
(***************************************************************************)
PrimaryKeyPos == 6

\* The encoded names of the collection's index table and document table.
EncodedTableIndexName == <<7>>
EncodedName == <<5>>

\* coll.SecondaryIndexKeyword() and the "kvs" subspace, as strings.
SecondaryIndexKeyword == StrPart(<<115, 107, 101, 121>>)
KVSubspace == StrPart(<<107, 118, 115>>)

\* Errors of the index iterator and of the transaction's point read.
ErrInterrupted == "interrupted"
ErrRead == "readFailed"

\* The parts the planner's encoder puts before an indexed value.
buildIndexParts(fieldName, typeOrder, val) == <<fieldName, IntPart(typeOrder), val>>

\* A secondary-index row:
\*   [indexKeyword, "kvs", fieldName, typeOrder, literal, pk1..pkn]
indexRowParts(fieldName, typeOrder, val, pks) ==
    <<SecondaryIndexKeyword, KVSubspace>> \o buildIndexParts(fieldName, typeOrder, val) \o pks

\* A primary document row: <tableName> <pk1..pkn> -> document.
primaryKey(pks) == NewKey(EncodedName, pks)

\* The values of the (single-field, integer) primary key.
PkValues == {1, 2}
\* The values of the indexed field "f".
Literals == {1, 2}

indexHit(lit, pk) ==
    SerializeToBytes(NewKey(EncodedTableIndexName,
        indexRowParts(StrPart(<<102>>), 1, IntPart(lit), <<IntPart(pk)>>)))

\* A row of the index table whose tail is not a tuple (unknown type code).
undecodableRow == EncodedTableIndexName \o <<127>>

AllIndexRows ==
    {indexHit(lit, pk) : lit \in Literals, pk \in PkValues} \cup {undecodableRow}

\* The rows of a set in ascending byte order, as the iterator yields them.
RECURSIVE sortedRows(_)
sortedRows(S) ==
    IF S = {} THEN <<>>
    ELSE LET m == CHOOSE x \in S : \A y \in S : bytesCompare(x, y) <= 0
         IN  <<m>> \o sortedRows(S \ {m})

\* The documents stored under the primary keys of a set.
primaryRows(pkSet) ==
    [k \in {SerializeToBytes(primaryKey(<<IntPart(pk)>>)) : pk \in pkSet} |->
        fromBigEndian(SubSeq(k, Len(k), Len(k)))]

Row(key, data) == [Key |-> key, Data |-> data]
NoRow == Row(<<>>, 0)

\* kvIter.Next: the next row of the index, none at the end or once the
\* iterator is interrupted; fail is the iterator failing during this call.
kvIterNext(index, pos, kvErr, fail) ==
    IF kvErr # OK
    THEN [ok |-> FALSE, pos |-> pos, kvErr |-> kvErr, key |-> <<>>]
    ELSE IF fail
    THEN [ok |-> FALSE, pos |-> pos, kvErr |-> ErrInterrupted, key |-> <<>>]
    ELSE IF pos < Len(index)
    THEN [ok |-> TRUE, pos |-> pos + 1, kvErr |-> OK, key |-> index[pos + 1]]
    ELSE [ok |-> FALSE, pos |-> pos, kvErr |-> OK, key |-> <<>>]

\* tx.Read: a point read, a single-element iterator over the row of the key;
\* fail is the transaction failing the read.
txReadPoint(primary, key, fail) ==
    IF fail THEN [err |-> ErrRead, found |-> FALSE, row |-> NoRow]
    ELSE IF SerializeToBytes(key) \in DOMAIN primary
    THEN [err |-> OK, found |-> TRUE,
          row |-> Row(SerializeToBytes(key), primary[SerializeToBytes(key)])]
    ELSE [err |-> OK, found |-> FALSE, row |-> NoRow]

\* The result of Next: ret is the value returned, row the row emitted,
\* advanced whether kvIter.Next was called, read whether tx.Read was called,
\* readKey the key read, panic a slice bound out of range.
NextResult(ret, err, kvErr, pos, row, advanced, read, readKey, panic) ==
    [ret |-> ret, err |-> err, kvErr |-> kvErr, pos |-> pos, row |-> row,
     advanced |-> advanced, read |-> read, readKey |-> readKey, panic |-> panic]

\* The primary-key parts of an index key: IndexParts()[PrimaryKeyPos:].
pksOf(indexParts) == SubSeq(indexParts, PrimaryKeyPos + 1, Len(indexParts))

\* Next without the test of the error it recorded.
Next_noLatch(err, kvErr, pos, index, primary, kvFail, readFail) ==
    IF kvErr # OK
    THEN NextResult(FALSE, kvErr, kvErr, pos, NoRow, FALSE, FALSE, <<>>, FALSE)
    ELSE
      LET kvn == kvIterNext(index, pos, kvErr, kvFail)
      IN  IF ~kvn.ok
          THEN NextResult(FALSE, err, kvn.kvErr, kvn.pos, NoRow, TRUE, FALSE, <<>>, FALSE)
          ELSE
            LET idxKey == FromBinary(EncodedTableIndexName, kvn.key)
            IN  IF idxKey.err # OK
                THEN NextResult(FALSE, idxKey.err, kvn.kvErr, kvn.pos, NoRow,
                                TRUE, FALSE, <<>>, FALSE)
                ELSE IF Len(idxKey.key.indexParts) < PrimaryKeyPos
                THEN NextResult(FALSE, err, kvn.kvErr, kvn.pos, NoRow,
                                TRUE, FALSE, <<>>, TRUE)
                ELSE
                  LET pkIndexParts == NewKey(EncodedName, pksOf(idxKey.key.indexParts))
                      doc == txReadPoint(primary, pkIndexParts, readFail)
                  IN  IF doc.err # OK
                      THEN NextResult(FALSE, doc.err, kvn.kvErr, kvn.pos, NoRow,
                                      TRUE, TRUE, SerializeToBytes(pkIndexParts), FALSE)
                      ELSE IF doc.found
                      THEN NextResult(TRUE, err, kvn.kvErr, kvn.pos, doc.row,
                                      TRUE, TRUE, SerializeToBytes(pkIndexParts), FALSE)
                      ELSE NextResult(FALSE, err, kvn.kvErr, kvn.pos, NoRow,
                                      TRUE, TRUE, SerializeToBytes(pkIndexParts), FALSE)

\* SecondaryIndexReaderImpl.Next.
Next(err, kvErr, pos, index, primary, kvFail, readFail) ==
    IF err # OK
    THEN NextResult(FALSE, err, kvErr, pos, NoRow, FALSE, FALSE, <<>>, FALSE)
    ELSE IF kvErr # OK
    THEN NextResult(FALSE, kvErr, kvErr, pos, NoRow, FALSE, FALSE, <<>>, FALSE)
    ELSE
      LET kvn == kvIterNext(index, pos, kvErr, kvFail)
      IN  IF ~kvn.ok
          THEN NextResult(FALSE, err, kvn.kvErr, kvn.pos, NoRow, TRUE, FALSE, <<>>, FALSE)
          ELSE
            LET idxKey == FromBinary(EncodedTableIndexName, kvn.key)
            IN  IF idxKey.err # OK
                THEN NextResult(FALSE, idxKey.err, kvn.kvErr, kvn.pos, NoRow,
                                TRUE, FALSE, <<>>, FALSE)
                ELSE IF Len(idxKey.key.indexParts) < PrimaryKeyPos
                THEN NextResult(FALSE, err, kvn.kvErr, kvn.pos, NoRow,
                                TRUE, FALSE, <<>>, TRUE)
                ELSE
                  LET pkIndexParts == NewKey(EncodedName, pksOf(idxKey.key.indexParts))
                      doc == txReadPoint(primary, pkIndexParts, readFail)
                  IN  IF doc.err # OK
                      THEN NextResult(FALSE, doc.err, kvn.kvErr, kvn.pos, NoRow,
                                      TRUE, TRUE, SerializeToBytes(pkIndexParts), FALSE)
                      ELSE IF doc.found
                      THEN NextResult(TRUE, err, kvn.kvErr, kvn.pos, doc.row,
                                      TRUE, TRUE, SerializeToBytes(pkIndexParts), FALSE)
                      ELSE NextResult(FALSE, err, kvn.kvErr, kvn.pos, NoRow,
                                      TRUE, TRUE, SerializeToBytes(pkIndexParts), FALSE)

\* SecondaryIndexReaderImpl.Interrupted.
Interrupted == rErr

ReaderIdleLast ==
    [called |-> FALSE, ret |-> FALSE, row |-> NoRow, advanced |-> FALSE,
     read |-> FALSE, readKey |-> <<>>, panic |-> FALSE, hit |-> <<>>]

\* newSecondaryIndexReaderImpl: a reader over an open iterator, no error.
ReaderInit ==
    /\ \E S \in SUBSET AllIndexRows :
          /\ Cardinality(S) <= MaxHits
          /\ rIndex = sortedRows(S)
    /\ \E P \in SUBSET PkValues : rPrimary = primaryRows(P)
    /\ rPos = 0
    /\ rKvErr = OK
    /\ rErr = OK
    /\ rLast = ReaderIdleLast
    /\ rEmitted = <<>>
    /\ rCalls = 0

\* One call of Next by the reader's consumer.
NextOp ==
    /\ rCalls < MaxCalls
    /\ ~rLast.panic
    /\ \E kvFail \in BOOLEAN, readFail \in BOOLEAN :
          LET o == Next(rErr, rKvErr, rPos, rIndex, rPrimary, kvFail, readFail)
          IN  /\ rErr' = o.err
              /\ rKvErr' = o.kvErr
              /\ rPos' = o.pos
              /\ rLast' = [called |-> TRUE, ret |-> o.ret, row |-> o.row,
                           advanced |-> o.advanced, read |-> o.read,
                           readKey |-> o.readKey, panic |-> o.panic,
                           hit |-> IF o.pos > rPos THEN rIndex[o.pos] ELSE <<>>]
              /\ rEmitted' = IF o.ret THEN Append(rEmitted, o.row) ELSE rEmitted
    /\ rCalls' = rCalls + 1
    /\ UNCHANGED <<rIndex, rPrimary, nonReaderVars>>

(***************************************************************************)
(* Properties of the reader.                                               *)
(***************************************************************************)
\* C1: Next returns false only when the index iterator is exhausted or an
\* error has been recorded (by the reader or by the iterator); a hit whose
\* primary row is absent does not end the iteration.
C1_FalseOnlyAtEndOrError ==
    (rLast.called /\ ~rLast.ret) =>
        \/ rPos = Len(rIndex)
        \/ rErr # OK
        \/ rKvErr # OK

\* C11: when Next returns false because the index iterator was interrupted
\* or failed, or because the point read failed, Interrupted() right after it
\* is an error; Interrupted() is nil after a false only at the genuine end of
\* the data (iterator exhausted, nothing failed).
C11_InterruptedTellsEndFromError ==
    (rLast.called /\ ~rLast.ret) =>
        /\ rKvErr # OK => Interrupted # OK
        /\ Interrupted = OK => (rPos = Len(rIndex) /\ rKvErr = OK)

\* C15: for an index row [indexKeyword, "kvs", fieldName, typeOrder, literal,
\* pk1..pkn] the key Next point-reads is the primary key of exactly pk1..pkn,
\* so when the document of that key is stored Next returns it.
C15_JoinReadsPrimaryKey ==
    \A lit \in Literals, pk \in PkValues :
        (rLast.called /\ rLast.advanced /\ rLast.hit = indexHit(lit, pk)) =>
            /\ ~rLast.panic
            /\ rLast.read
            /\ rLast.readKey = SerializeToBytes(primaryKey(<<IntPart(pk)>>))
            /\ (rErr = OK /\ rLast.readKey \in DOMAIN rPrimary) =>
                  (rLast.ret /\ rLast.row.Key = rLast.readKey)

\* C22: once Next has recorded an error, every later call of Next returns
\* false, neither advances the index iterator nor reads from the transaction,
\* and leaves the error as it is: Interrupted() keeps returning the first
\* error.
C22_ErrorLatched ==
    [][Interrupted # OK =>
          /\ rErr' = rErr
          /\ ~rLast'.ret
          /\ ~rLast'.advanced
          /\ ~rLast'.read
          /\ rPos' = rPos
          /\ rKvErr' = rKvErr
          /\ rEmitted' = rEmitted]_vars

\* C22 witness: a point read failed, and a later call of Next found the error
\* recorded while the index iterator still had rows.
C22_Witness ==
    /\ rErr = ErrRead
    /\ rLast.called /\ ~rLast.advanced /\ ~rLast.ret
    /\ rCalls >= 2
    /\ rPos < Len(rIndex)
    /\ rKvErr = OK

(***************************************************************************)
(* The secondary-index planner (BuildSecondaryIndexKeys).                  *)
(***************************************************************************)
\* filter.QueryPlan.QueryType
EQUAL == "EQUAL"
RANGE == "RANGE"
FULLRANGE == "FULLRANGE"

\* schema.FieldType
Int64Type == "Int64"
StringType == "String"
ByteType == "Byte"
ArrayType == "Array"
UnknownType == "Unknown"

\* schema.QueryableField; indexed: the field is active and indexed.
QueryableField(name, dataType, indexed) ==
    [FieldName |-> name, DataType |-> dataType, Indexed |-> indexed]

\* A leaf filter: field op literal, op one of "eq", "gt", "lt".
Filter(field, op, lit) == [field |-> field, op |-> op, lit |-> lit]

\* coll.GetActiveIndexedFields
GetActiveIndexedFields(coll) == SelectSeq(coll, LAMBDA f : f.Indexed)

\* The value of a literal of a field's type, as a key part.
valueOf(dataType, lit) ==
    IF dataType = StringType THEN StrPart(<<96 + lit>>)
    ELSE IF dataType = ByteType THEN BytesPart(<<lit>>)
    ELSE IntPart(lit)

\* value.ToSecondaryOrder: the tag that orders values of different types.
ToSecondaryOrder(dataType) ==
    IF dataType = Int64Type THEN 3
    ELSE IF dataType = StringType THEN 5
    ELSE IF dataType = ByteType THEN 6
    ELSE 9

\* newKeyWithPrimaryKey(indexParts, table, indexName, "kvs")
newKeyWithPrimaryKey(id, table, indexName, other) ==
    NewKey(table, <<indexName, other>> \o id)

\* The encoder closure of BuildSecondaryIndexKeys.
encoder(indexParts) ==
    newKeyWithPrimaryKey(indexParts, EncodedTableIndexName, SecondaryIndexKeyword, KVSubspace)

\* The key of one literal of a field.
literalKey(field, lit) ==
    encoder(buildIndexParts(StrPart(<<field.FieldName>>), ToSecondaryOrder(field.DataType),
                            valueOf(field.DataType, lit)))

QueryPlan(queryType, dataType, from, keys) ==
    [QueryType |-> queryType, DataType |-> dataType, From |-> from, Keys |-> keys]
NoPlan == QueryPlan("none", UnknownType, 0, <<>>)

\* The literals of the filters of one operator on one field, in filter
\* order, each once.
RECURSIVE literalsOf(_, _, _)
literalsOf(filters, name, op) ==
    IF filters = <<>> THEN <<>>
    ELSE LET rest == literalsOf(Tail(filters), name, op)
             f == Head(filters)
         IN  IF f.field = name /\ f.op = op
             THEN <<f.lit>> \o SelectSeq(rest, LAMBDA l : l # f.lit)
             ELSE rest

\* The keys of a sequence of literals of a field.
keysOf(field, lits) == [i \in 1..Len(lits) |-> literalKey(field, lits[i])]

\* The error of the equality builder: an error value of its own, apart from
\* the errors BuildSecondaryIndexKeys creates.
ErrEqBuilder == "eqBuilderError"

\* The equality builder: one EQUAL plan per indexed field with an equality
\* filter, one key per distinct literal; an error when no field has one.
RECURSIVE eqPlansOf(_, _)
eqPlansOf(filters, fields) ==
    IF fields = <<>> THEN <<>>
    ELSE LET f == Head(fields)
             lits == literalsOf(filters, f.FieldName, "eq")
         IN  (IF lits = <<>> THEN <<>>
              ELSE <<QueryPlan(EQUAL, f.DataType, f.FieldName, keysOf(f, lits))>>)
             \o eqPlansOf(filters, Tail(fields))

eqKeyBuilderBuild(filters, fields) ==
    IF eqPlansOf(filters, fields) = <<>>
    THEN [plans |-> <<>>, err |-> ErrEqBuilder]
    ELSE [plans |-> eqPlansOf(filters, fields), err |-> OK]

\* The bounds of a field: the key of the first lower (gt) and of the first
\* upper (lt) literal, the field's prefix where a side has no bound.
fieldPrefix(field, side) ==
    encoder(buildIndexParts(StrPart(<<field.FieldName>>), side, BytesPart(<<>>)))

rangeKeys(field, lower, upper) ==
    << IF lower = <<>> THEN fieldPrefix(field, 0) ELSE literalKey(field, lower[1]),
       IF upper = <<>> THEN fieldPrefix(field, 255) ELSE literalKey(field, upper[1]) >>

\* The range builder: per indexed field a RANGE plan over its comparisons,
\* a FULLRANGE plan when no bound narrows the field.
RECURSIVE rangePlansOf(_, _)
rangePlansOf(filters, fields) ==
    IF fields = <<>> THEN <<>>
    ELSE LET f == Head(fields)
             lower == literalsOf(filters, f.FieldName, "gt")
             upper == literalsOf(filters, f.FieldName, "lt")
         IN  <<QueryPlan(IF lower = <<>> /\ upper = <<>> THEN FULLRANGE ELSE RANGE,
                         f.DataType, f.FieldName, rangeKeys(f, lower, upper))>>
             \o rangePlansOf(filters, Tail(fields))

rangeKeyBuilderBuild(filters, fields) ==
    [plans |-> rangePlansOf(filters, fields), err |-> OK]

\* filter.SortQueryPlans: the narrowed plans before the full ranges.
SortQueryPlans(plans) ==
    SelectSeq(plans, LAMBDA q : q.QueryType = RANGE)
        \o SelectSeq(plans, LAMBDA q : q.QueryType # RANGE)

\* indexedDataType taking Byte for an indexable type.
indexedDataType_allowsByte(queryPlan) ==
    queryPlan.DataType \notin {UnknownType, ArrayType}

\* indexedDataType
indexedDataType(queryPlan) ==
    queryPlan.DataType \notin {ByteType, UnknownType, ArrayType}

\* The first plan of a sequence whose data type is indexable, NoPlan if none.
firstIndexed(plans) ==
    IF \E i \in 1..Len(plans) : indexedDataType(plans[i])
    THEN plans[CHOOSE i \in 1..Len(plans) :
                  /\ indexedDataType(plans[i])
                  /\ \A j \in 1..(i - 1) : ~indexedDataType(plans[j])]
    ELSE NoPlan

PlanResult(plan, err) == [plan |-> plan, err |-> err]

\* The range path of BuildSecondaryIndexKeys.
rangePath(queryFilters, indexeableFields) ==
    LET rangePlans == rangeKeyBuilderBuild(queryFilters, indexeableFields)
    IN  IF rangePlans.err # OK THEN PlanResult(NoPlan, rangePlans.err)
        ELSE IF Len(rangePlans.plans) = 0 THEN PlanResult(NoPlan, InvalidArgument)
        ELSE IF firstIndexed(SortQueryPlans(rangePlans.plans)) # NoPlan
        THEN PlanResult(firstIndexed(SortQueryPlans(rangePlans.plans)), OK)
        ELSE PlanResult(NoPlan, InvalidArgument)

\* BuildSecondaryIndexKeys looking at the first equality plan only.
BuildSecondaryIndexKeys_firstEqOnly(coll, queryFilters) ==
    LET indexeableFields == GetActiveIndexedFields(coll)
        eqPlan == eqKeyBuilderBuild(queryFilters, indexeableFields)
    IN  IF Len(queryFilters) = 0 THEN PlanResult(NoPlan, InvalidArgument)
        ELSE IF Len(indexeableFields) = 0 THEN PlanResult(NoPlan, InvalidArgument)
        ELSE IF eqPlan.err = OK /\ indexedDataType(eqPlan.plans[1])
        THEN PlanResult(eqPlan.plans[1], OK)
        ELSE rangePath(queryFilters, indexeableFields)

\* BuildSecondaryIndexKeys without the test of the empty filter list.
BuildSecondaryIndexKeys_noEmptyTest(coll, queryFilters) ==
    LET indexeableFields == GetActiveIndexedFields(coll)
        eqPlan == eqKeyBuilderBuild(queryFilters, indexeableFields)
    IN  IF Len(indexeableFields) = 0 THEN PlanResult(NoPlan, InvalidArgument)
        ELSE IF eqPlan.err = OK /\ firstIndexed(eqPlan.plans) # NoPlan
        THEN PlanResult(firstIndexed(eqPlan.plans), OK)
        ELSE rangePath(queryFilters, indexeableFields)

\* BuildSecondaryIndexKeys returning the error of the equality builder.
BuildSecondaryIndexKeys_surfacesEqError(coll, queryFilters) ==
    LET indexeableFields == GetActiveIndexedFields(coll)
        eqPlan == eqKeyBuilderBuild(queryFilters, indexeableFields)
    IN  IF Len(queryFilters) = 0 THEN PlanResult(NoPlan, InvalidArgument)
        ELSE IF Len(indexeableFields) = 0 THEN PlanResult(NoPlan, InvalidArgument)
        ELSE IF eqPlan.err # OK THEN PlanResult(NoPlan, eqPlan.err)
        ELSE IF firstIndexed(eqPlan.plans) # NoPlan
        THEN PlanResult(firstIndexed(eqPlan.plans), OK)
        ELSE rangePath(queryFilters, indexeableFields)

\* BuildSecondaryIndexKeys
BuildSecondaryIndexKeys(coll, queryFilters) ==
    LET indexeableFields == GetActiveIndexedFields(coll)
        eqPlan == eqKeyBuilderBuild(queryFilters, indexeableFields)
    IN  IF Len(queryFilters) = 0 THEN PlanResult(NoPlan, InvalidArgument)
        ELSE IF Len(indexeableFields) = 0 THEN PlanResult(NoPlan, InvalidArgument)
        ELSE IF eqPlan.err = OK /\ firstIndexed(eqPlan.plans) # NoPlan
        THEN PlanResult(firstIndexed(eqPlan.plans), OK)
        ELSE rangePath(queryFilters, indexeableFields)

\* The collections tried: the fields "a" (97) and "b" (98), in either order,
\* of each type, indexed or not.
FieldNames == {97, 98}
FieldTypes == {Int64Type, StringType, ByteType, ArrayType}
FieldsNamed(name) ==
    {QueryableField(name, t, x) : t \in FieldTypes, x \in BOOLEAN}
Collections ==
    {<<>>}
    \cup UNION {{<<f>> : f \in FieldsNamed(n)} : n \in FieldNames}
    \cup UNION {{<<f, g>> : f \in FieldsNamed(n[1]), g \in FieldsNamed(n[2])} :
                   n \in {m \in FieldNames \X FieldNames : m[1] # m[2]}}

\* The filters tried.
LeafFilters ==
    {Filter(n, o[1], o[2]) : n \in FieldNames,
                             o \in {<<"eq", 1>>, <<"eq", 2>>, <<"gt", 1>>, <<"lt", 2>>}}
RECURSIVE FilterLists(_)
FilterLists(n) ==
    IF n = 0 THEN {<<>>}
    ELSE {Append(l, f) : l \in FilterLists(n - 1), f \in LeafFilters}

PlanIdleRes == [called |-> FALSE, plan |-> NoPlan, err |-> OK]

PlanInit ==
    /\ pColl \in Collections
    /\ \E n \in 0..MaxFilters : pFilters \in FilterLists(n)
    /\ pRes = PlanIdleRes

\* One call of BuildSecondaryIndexKeys.
BuildOp ==
    /\ ~pRes.called
    /\ pRes' = [called |-> TRUE,
                plan |-> BuildSecondaryIndexKeys(pColl, pFilters).plan,
                err |-> BuildSecondaryIndexKeys(pColl, pFilters).err]
    /\ UNCHANGED <<pColl, pFilters, nonPlanVars>>

(***************************************************************************)
(* Properties of the planner.                                              *)
(***************************************************************************)
\* Some active indexed field of an indexable type has an equality filter.
HasIndexableEquality(coll, filters) ==
    \E i \in 1..Len(coll), j \in 1..Len(filters) :
        /\ coll[i].Indexed
        /\ coll[i].DataType \notin {ByteType, UnknownType, ArrayType}
        /\ filters[j].field = coll[i].FieldName
        /\ filters[j].op = "eq"

\* C6: when the filter list is not empty and some active indexed field of an
\* indexable type has an equality filter, the plan returned is an EQUAL plan,
\* whatever other filters there are.
C6_EqualityWins ==
    (pRes.called /\ HasIndexableEquality(pColl, pFilters)) =>
        /\ pRes.err = OK
        /\ pRes.plan.QueryType = EQUAL

\* C6 witness: the first equality candidate is of a non-indexable type, a
\* later field has an equality filter and a comparison, and the plan is EQUAL
\* on the later field.
C6_Witness ==
    /\ pRes.called
    /\ Len(pColl) = 2
    /\ pColl[1].Indexed /\ pColl[1].DataType = ByteType
    /\ pColl[2].Indexed /\ pColl[2].DataType = Int64Type
    /\ \E j \in 1..Len(pFilters) : pFilters[j].field = pColl[1].FieldName /\ pFilters[j].op = "eq"
    /\ \E j \in 1..Len(pFilters) : pFilters[j].field = pColl[2].FieldName /\ pFilters[j].op = "eq"
    /\ pRes.plan.QueryType = EQUAL
    /\ pRes.plan.From = pColl[2].FieldName

\* Neither builder yields a plan of an indexable data type for the active
\* indexed fields of coll.
NoIndexablePlan(coll, filters) ==
    LET fields == GetActiveIndexedFields(coll)
        eq == eqKeyBuilderBuild(filters, fields)
        rg == rangeKeyBuilderBuild(filters, fields)
        candidates == (IF eq.err = OK THEN {eq.plans[i] : i \in 1..Len(eq.plans)} ELSE {})
                        \cup (IF rg.err = OK THEN {rg.plans[i] : i \in 1..Len(rg.plans)} ELSE {})
    IN  \A q \in candidates : q.DataType \in {ByteType, UnknownType, ArrayType}

\* C13: BuildSecondaryIndexKeys returns InvalidArgument and no plan when the
\* filter list is empty (whatever the collection), when the collection has no
\* active indexed field, and when neither the equality builder nor the range
\* builder yields a plan of an indexable data type; an error never comes with
\* a plan.
C13_InvalidArgumentCases ==
    pRes.called =>
        /\ (\/ Len(pFilters) = 0
            \/ \A i \in 1..Len(pColl) : ~pColl[i].Indexed
            \/ NoIndexablePlan(pColl, pFilters)) =>
                (pRes.err = InvalidArgument /\ pRes.plan = NoPlan)
        /\ pRes.err # OK => pRes.plan = NoPlan

\* C13 witness: filters on an active indexed field of type Byte beside a field
\* of type Int64 that is not indexed: both builders yield plans, none usable.
C13_Witness ==
    /\ pRes.called /\ pRes.err = InvalidArgument /\ pRes.plan = NoPlan
    /\ Len(pColl) = 2 /\ Len(pFilters) = 2
    /\ pColl[1].Indexed /\ pColl[1].DataType = ByteType
    /\ ~pColl[2].Indexed /\ pColl[2].DataType = Int64Type
    /\ pFilters[1].field = pColl[1].FieldName /\ pFilters[1].op = "eq"
    /\ pFilters[2].field = pColl[2].FieldName /\ pFilters[2].op = "eq"

\* C21: BuildSecondaryIndexKeys returns either an error and no plan, or a
\* plan whose dataType is none of Byte, Unknown and Array; the plan is from an
\* active indexed field of the collection and carries that field's type, on
\* the equality path and on the range path.
C21_PlanTypeIndexable ==
    pRes.called =>
        \/ pRes.err # OK /\ pRes.plan = NoPlan
        \/ /\ pRes.err = OK
           /\ pRes.plan.QueryType \in {EQUAL, RANGE, FULLRANGE}
           /\ pRes.plan.DataType \notin {ByteType, UnknownType, ArrayType}
           /\ \E i \in 1..Len(pColl) :
                 /\ pColl[i].FieldName = pRes.plan.From
                 /\ pColl[i].Indexed
                 /\ pColl[i].DataType = pRes.plan.DataType

\* C21 witness: the range path passed over the narrowed plan of a Byte field
\* and returned the plan of the String field after it.
C21_Witness ==
    /\ pRes.called /\ pRes.err = OK
    /\ Len(pColl) = 2 /\ Len(pFilters) = 1
    /\ pColl[1].Indexed /\ pColl[1].DataType = ByteType
    /\ pColl[2].Indexed /\ pColl[2].DataType = StringType
    /\ pFilters[1].field = pColl[1].FieldName /\ pFilters[1].op = "gt"
    /\ pRes.plan.QueryType = FULLRANGE
    /\ pRes.plan.From = pColl[2].FieldName
    /\ pRes.plan.DataType = StringType

\* C23: the error of the equality builder is never returned; when the filter
\* list is not empty, the collection has an active indexed field and no such
\* field of an indexable type has an equality filter (the equality builder
\* fails or yields plans of non-indexable type only), the result is the one of
\* the range path: a RANGE or FULLRANGE plan, or InvalidArgument and no plan.
C23_EqualityErrorNotSurfaced ==
    pRes.called =>
        /\ pRes.err # ErrEqBuilder
        /\ (/\ Len(pFilters) > 0
            /\ \E i \in 1..Len(pColl) : pColl[i].Indexed
            /\ ~HasIndexableEquality(pColl, pFilters)) =>
              /\ pRes.plan = rangePath(pFilters, GetActiveIndexedFields(pColl)).plan
              /\ pRes.err = rangePath(pFilters, GetActiveIndexedFields(pColl)).err
              /\ pRes.err \in {OK, InvalidArgument}
              /\ pRes.err = OK => pRes.plan.QueryType \in {RANGE, FULLRANGE}
              /\ pRes.err # OK => pRes.plan = NoPlan

\* C23 witness: the equality builder failed on a comparison filter alone, and
\* the plan returned is the RANGE plan of the filter's field.
C23_Witness ==
    /\ pRes.called /\ pRes.err = OK
    /\ Len(pColl) = 1 /\ pColl[1].Indexed /\ pColl[1].DataType = Int64Type
    /\ Len(pFilters) = 1 /\ pFilters[1].field = pColl[1].FieldName /\ pFilters[1].op = "gt"
    /\ eqKeyBuilderBuild(pFilters, GetActiveIndexedFields(pColl)).err = ErrEqBuilder
    /\ pRes.plan.QueryType = RANGE

(***************************************************************************)
(* The key generator (keyGenerator).  JSON text and values are byte        *)
(* sequences (ASCII).                                                      *)
(***************************************************************************)
\* schema.FieldType, continued
UUIDType == "UUID"
DateTimeType == "DateTime"
Int32Type == "Int32"
DoubleType == "Double"

\* jsonparser.ValueType
NotExist == "NotExist"
Null == "Null"
String == "String"
Number == "Number"

\* "0", uuid.NullUUID.String() and time.Time{} in RFC3339Nano; a UUID string
\* is written u<n>, a time t<n>.
zeroIntStringSlice == <<48>>
zeroUUIDStringSlice == <<117, 0>>
zeroTimeStringSlice == <<116, 0>>

\* fmt.Sprintf("%d", n)
RECURSIVE digits(_)
digits(n) == IF n < 10 THEN <<48 + n>> ELSE digits(n \div 10) \o <<48 + (n % 10)>>
itoa(n) == IF n < 0 THEN <<45>> \o digits(0 - n) ELSE digits(n)

\* The integer a decimal text denotes.
RECURSIVE fromDigits(_)
fromDigits(b) ==
    IF b = <<>> THEN 0 ELSE 10 * fromDigits(SubSeq(b, 1, Len(b) - 1)) + (b[Len(b)] - 48)
isDecimal(b) ==
    LET d == IF b # <<>> /\ b[1] = 45 THEN Tail(b) ELSE b
    IN  d # <<>> /\ \A i \in 1..Len(d) : d[i] \in 48..57
atoi(b) == IF b[1] = 45 THEN 0 - fromDigits(Tail(b)) ELSE fromDigits(b)

\* base64.StdEncoding, abstracted: the encoding of x is 'B' followed by x.
base64Encode(x) == <<66>> \o x
base64Decodable(y) == y # <<>> /\ y[1] = 66
base64Decode(y) == Tail(y)

\* A JSON value of a document: its type and its raw text (unquoted for a
\* string, as jsonparser.Get returns it).
JsonValue(dtp, val) == [dtp |-> dtp, val |-> val]
JsonAbsent == JsonValue(NotExist, <<>>)

\* jsonparser.Get(document, fieldName)
jsonparserGet(document, fieldName) ==
    IF document[fieldName].dtp = NotExist
    THEN [val |-> <<>>, dtp |-> NotExist, err |-> NotFound]
    ELSE [val |-> document[fieldName].val, dtp |-> document[fieldName].dtp, err |-> OK]

\* jsonparser.Set(document, jsonVal, fieldName): jsonVal is JSON text.
jsonparserSet(document, jsonVal, fieldName) ==
    [document EXCEPT ![fieldName] =
        IF jsonVal # <<>> /\ jsonVal[1] = 34
        THEN JsonValue(String, SubSeq(jsonVal, 2, Len(jsonVal) - 1))
        ELSE JsonValue(Number, jsonVal)]

\* schema.Field of an index.
Field(name, type, auto) == [FieldName |-> name, Type |-> type, Auto |-> auto]

\* value.NewValue(fieldType, jsonVal): the typed value of raw JSON text.
NewValue(fieldType, jsonVal) ==
    IF fieldType \in {Int32Type, Int64Type, DoubleType}
    THEN (IF isDecimal(jsonVal) THEN [v |-> IntPart(atoi(jsonVal)), err |-> OK]
          ELSE [v |-> IntPart(0), err |-> InvalidArgument])
    ELSE IF fieldType = ByteType
    THEN [v |-> BytesPart(IF base64Decodable(jsonVal) THEN base64Decode(jsonVal)
                          ELSE jsonVal),
          err |-> OK]
    ELSE [v |-> StrPart(jsonVal), err |-> OK]

\* uuid.NewUUIDAsString and time.Now: r is what the random source and the
\* clock deliver.
NewUUIDAsString(r) == <<117, r>>
NowRFC3339Nano(r) == <<116, r>>
NowUnixNano(r) == 10 * r + 9

\* TableKeyGenerator.GenerateCounter: an atomic add on the table's counter,
\* returning the value after the increment; fail is the transaction failing.
GenerateCounter(counter, fail) ==
    IF fail THEN [value |-> 0, err |-> Internal, counter |-> counter]
    ELSE [value |-> counter + 1, err |-> OK, counter |-> counter + 1]

\* keyGenerator.getJsonQuotedValue
getJsonQuotedValue(fieldType, jsonVal) ==
    IF fieldType \in {StringType, UUIDType, ByteType, DateTimeType}
    THEN <<34>> \o jsonVal \o <<34>>
    ELSE jsonVal

\* isNull with every Int32 value taken for the zero value.
isNull_anyInt32(tp, val) ==
    IF tp = Int32Type THEN TRUE
    ELSE IF tp = Int64Type THEN val = zeroIntStringSlice
    ELSE IF tp = UUIDType THEN val = zeroUUIDStringSlice
    ELSE IF tp = DateTimeType THEN val = zeroTimeStringSlice
    ELSE IF tp \in {StringType, ByteType} THEN Len(val) = 0
    ELSE FALSE

\* isNull without the zero UUID.
isNull_noZeroUUID(tp, val) ==
    IF tp = Int32Type THEN val = zeroIntStringSlice
    ELSE IF tp = Int64Type THEN val = zeroIntStringSlice
    ELSE IF tp = DateTimeType THEN val = zeroTimeStringSlice
    ELSE IF tp \in {StringType, ByteType} THEN Len(val) = 0
    ELSE FALSE

\* isNull
isNull(tp, val) ==
    IF tp = Int32Type THEN val = zeroIntStringSlice
    ELSE IF tp = Int64Type THEN val = zeroIntStringSlice
    ELSE IF tp = UUIDType THEN val = zeroUUIDStringSlice
    ELSE IF tp = DateTimeType THEN val = zeroTimeStringSlice
    ELSE IF tp \in {StringType, ByteType} THEN Len(val) = 0
    ELSE FALSE

GetResult(jsonVal, v, err, counter, counted) ==
    [jsonVal |-> jsonVal, v |-> v, err |-> err, counter |-> counter, counted |-> counted]

\* get reading the counter without adding to it.
get_readWithoutAdd(field, r, counter) ==
    IF field.Type \in {StringType, UUIDType}
    THEN GetResult(NewUUIDAsString(r), StrPart(NewUUIDAsString(r)), OK, counter, FALSE)
    ELSE IF field.Type = ByteType
    THEN GetResult(base64Encode(NewUUIDAsString(r)), BytesPart(NewUUIDAsString(r)), OK,
                   counter, FALSE)
    ELSE IF field.Type = DateTimeType
    THEN GetResult(NowRFC3339Nano(r), StrPart(NowRFC3339Nano(r)), OK, counter, FALSE)
    ELSE IF field.Type = Int64Type
    THEN GetResult(itoa(NowUnixNano(r)), IntPart(NowUnixNano(r)), OK, counter, FALSE)
    ELSE IF field.Type = Int32Type
    THEN (IF r = 0 THEN GetResult(<<>>, IntPart(0), Internal, counter, FALSE)
          ELSE GetResult(itoa(counter + 1), IntPart(counter + 1), OK, counter, TRUE))
    ELSE GetResult(<<>>, IntPart(0), InvalidArgument, counter, FALSE)

\* get generating a number for a field of an unsupported type.
get_generatesAnyType(field, r, counter) ==
    IF field.Type \in {StringType, UUIDType}
    THEN GetResult(NewUUIDAsString(r), StrPart(NewUUIDAsString(r)), OK, counter, FALSE)
    ELSE IF field.Type = ByteType
    THEN GetResult(base64Encode(NewUUIDAsString(r)), BytesPart(NewUUIDAsString(r)), OK,
                   counter, FALSE)
    ELSE IF field.Type = DateTimeType
    THEN GetResult(NowRFC3339Nano(r), StrPart(NowRFC3339Nano(r)), OK, counter, FALSE)
    ELSE IF field.Type = Int32Type
    THEN LET valueI32 == GenerateCounter(counter, r = 0)
         IN  IF valueI32.err # OK
             THEN GetResult(<<>>, IntPart(0), valueI32.err, valueI32.counter, FALSE)
             ELSE GetResult(itoa(valueI32.value), IntPart(valueI32.value), OK,
                            valueI32.counter, TRUE)
    ELSE GetResult(itoa(NowUnixNano(r)), IntPart(NowUnixNano(r)), OK, counter, FALSE)

\* keyGenerator.get: r is the outcome of the random source, of the clock or
\* (Int32, r = 0) of a failing transaction.
get(field, r, counter) ==
    IF field.Type \in {StringType, UUIDType}
    THEN GetResult(NewUUIDAsString(r), StrPart(NewUUIDAsString(r)), OK, counter, FALSE)
    ELSE IF field.Type = ByteType
    THEN GetResult(base64Encode(NewUUIDAsString(r)), BytesPart(NewUUIDAsString(r)), OK,
                   counter, FALSE)
    ELSE IF field.Type = DateTimeType
    THEN GetResult(NowRFC3339Nano(r), StrPart(NowRFC3339Nano(r)), OK, counter, FALSE)
    ELSE IF field.Type = Int64Type
    THEN GetResult(itoa(NowUnixNano(r)), IntPart(NowUnixNano(r)), OK, counter, FALSE)
    ELSE IF field.Type = Int32Type
    THEN LET valueI32 == GenerateCounter(counter, r = 0)
         IN  IF valueI32.err # OK
             THEN GetResult(<<>>, IntPart(0), valueI32.err, valueI32.counter, FALSE)
             ELSE GetResult(itoa(valueI32.value), IntPart(valueI32.value), OK,
                            valueI32.counter, TRUE)
    ELSE GetResult(<<>>, IntPart(0), InvalidArgument, counter, FALSE)

\* keyGenerator.setKeyInDoc: the value is set in a copy of the document.
setKeyInDoc(document, field, jsonVal) ==
    jsonparserSet(document, getJsonQuotedValue(field.Type, jsonVal), field.FieldName)

\* keyGenerator.addKeyToResp
addKeyToResp(keysForResp, field, jsonVal) ==
    Append(keysForResp, <<field.FieldName, getJsonQuotedValue(field.Type, jsonVal)>>)

\* Encoder.EncodeKey(table, index, indexParts)
EncodeKey(table, indexParts) == NewKey(table, indexParts)

\* newKeyGenerator: a generator over the document; from is the run whose
\* output the document is, 0 for the caller's document.  k.document is the
\* caller's slice itself (aliased); caller holds the bytes of that slice.
newKeyGenerator(document, from) ==
    [status |-> "running", from |-> from, document |-> document, keysForResp |-> <<>>,
     forceInsert |-> FALSE, indexParts |-> <<>>, key |-> NilKey.key, err |-> OK,
     generated |-> 0, counters |-> <<>>, counterAfter |-> 0,
     caller |-> document, aliased |-> TRUE]
IdleGenerator == [newKeyGenerator([n \in {} |-> JsonAbsent], 0) EXCEPT !.status = "idle"]

\* generate, returning an error.
generateFails(k, err, counter) ==
    [k |-> [k EXCEPT !.status = "failed", !.err = err, !.counterAfter = counter],
     counter |-> counter]

\* setKeyInDoc without the copy of the document.
copyDocument_none(k) == k

\* The copy setKeyInDoc makes before it writes: k.document becomes a slice of
\* its own holding the same bytes.
copyDocument(k) == [k EXCEPT !.aliased = FALSE]

\* The bytes of the caller's slice after jsonparser.Set wrote document through
\* k.document: Set writes into the slice it is given.
callerAfterSet(k, document) == IF k.aliased THEN document ELSE k.caller

\* generateField setting forceInsert for a generated Int32 field too.
generateField_forceOnInt32(k, fields, r, counter) ==
    LET field == fields[Len(k.indexParts) + 1]
        got == jsonparserGet(k.document, field.FieldName)
        autoGenerate ==
            field.Auto /\ (got.dtp = NotExist
                           \/ (got.err = OK /\ (isNull(field.Type, got.val) \/ got.dtp = Null)))
        g == get(field, r, counter)
        v == NewValue(field.Type, got.val)
        done(kk) ==
            IF Len(kk.indexParts) = Len(fields)
            THEN [kk EXCEPT !.status = "done", !.key = EncodeKey(EncodedName, kk.indexParts)]
            ELSE kk
    IN  IF ~autoGenerate /\ got.err # OK THEN generateFails(k, InvalidArgument, counter)
        ELSE IF autoGenerate
        THEN IF g.err # OK THEN generateFails(k, g.err, g.counter)
             ELSE [k |-> done([k EXCEPT
                        !.document = setKeyInDoc(k.document, field, g.jsonVal),
                        !.aliased = copyDocument(k).aliased,
                        !.caller = callerAfterSet(copyDocument(k),
                                                  setKeyInDoc(k.document, field, g.jsonVal)),
                        !.forceInsert = k.forceInsert \/ field.Type \in {Int64Type, DateTimeType, Int32Type},
                        !.keysForResp = addKeyToResp(k.keysForResp, field, g.jsonVal),
                        !.indexParts = Append(k.indexParts, g.v),
                        !.generated = k.generated + 1,
                        !.counters = IF g.counted THEN Append(k.counters, g.v.n)
                                     ELSE k.counters,
                        !.counterAfter = g.counter]),
                   counter |-> g.counter]
        ELSE IF v.err # OK THEN generateFails(k, v.err, counter)
        ELSE [k |-> done([k EXCEPT
                        !.keysForResp = addKeyToResp(k.keysForResp, field, got.val),
                        !.indexParts = Append(k.indexParts, v.v),
                        !.counterAfter = counter]),
              counter |-> counter]

\* One round of the loop of generate, over the field after those already
\* processed; the key is encoded after the last field.
generateField(k, fields, r, counter) ==
    LET field == fields[Len(k.indexParts) + 1]
        got == jsonparserGet(k.document, field.FieldName)
        autoGenerate ==
            field.Auto /\ (got.dtp = NotExist
                           \/ (got.err = OK /\ (isNull(field.Type, got.val) \/ got.dtp = Null)))
        g == get(field, r, counter)
        v == NewValue(field.Type, got.val)
        done(kk) ==
            IF Len(kk.indexParts) = Len(fields)
            THEN [kk EXCEPT !.status = "done", !.key = EncodeKey(EncodedName, kk.indexParts)]
            ELSE kk
    IN  IF ~autoGenerate /\ got.err # OK THEN generateFails(k, InvalidArgument, counter)
        ELSE IF autoGenerate
        THEN IF g.err # OK THEN generateFails(k, g.err, g.counter)
             ELSE [k |-> done([k EXCEPT
                        !.document = setKeyInDoc(k.document, field, g.jsonVal),
                        !.aliased = copyDocument(k).aliased,
                        !.caller = callerAfterSet(copyDocument(k),
                                                  setKeyInDoc(k.document, field, g.jsonVal)),
                        !.forceInsert = k.forceInsert \/ field.Type \in {Int64Type, DateTimeType},
                        !.keysForResp = addKeyToResp(k.keysForResp, field, g.jsonVal),
                        !.indexParts = Append(k.indexParts, g.v),
                        !.generated = k.generated + 1,
                        !.counters = IF g.counted THEN Append(k.counters, g.v.n)
                                     ELSE k.counters,
                        !.counterAfter = g.counter]),
                   counter |-> g.counter]
        ELSE IF v.err # OK THEN generateFails(k, v.err, counter)
        ELSE [k |-> done([k EXCEPT
                        !.keysForResp = addKeyToResp(k.keysForResp, field, got.val),
                        !.indexParts = Append(k.indexParts, v.v),
                        !.counterAfter = counter]),
              counter |-> counter]

\* keyGenerator.generate: the loop over the fields of the index; rs are the
\* outcomes of the random source, the clock and the counter's transaction,
\* one per field.
RECURSIVE generate(_, _, _, _)
generate(k, fields, rs, counter) ==
    IF k.status # "running" THEN [k |-> k, counter |-> counter]
    ELSE LET o == generateField(k, fields, rs[Len(k.indexParts) + 1], counter)
         IN  generate(o.k, fields, rs, o.counter)

\* The outcomes the environment can deliver for a field: for an Int32 field
\* the counter's transaction fails (0) or commits (1), for the others one of
\* two random or clock values.
Outcomes(field) == IF field.Type = Int32Type THEN {0, 1} ELSE {1, 2}
OutcomeLists(fields) ==
    {rs \in [1..Len(fields) -> {0, 1, 2}] : \A i \in 1..Len(fields) : rs[i] \in Outcomes(fields[i])}

\* The key generators that run.
Runs == {1, 2}

\* The fields of an index: field i is named 104 + i ("i", "j", ...).
FieldKinds ==
    {<<StringType, TRUE>>, <<UUIDType, TRUE>>, <<ByteType, TRUE>>, <<DateTimeType, TRUE>>,
     <<Int64Type, TRUE>>, <<Int32Type, TRUE>>, <<DoubleType, TRUE>>, <<Int32Type, FALSE>>}
\* The values of a field of a document: absent, null, the zero value of the
\* type, and a value that is not zero.
zeroValue(type) ==
    IF type \in {Int32Type, Int64Type, DoubleType} THEN JsonValue(Number, zeroIntStringSlice)
    ELSE IF type = UUIDType THEN JsonValue(String, zeroUUIDStringSlice)
    ELSE IF type = DateTimeType THEN JsonValue(String, zeroTimeStringSlice)
    ELSE JsonValue(String, <<>>)
nonZeroValue(type) ==
    IF type \in {Int32Type, Int64Type, DoubleType} THEN JsonValue(Number, itoa(50))
    ELSE IF type = UUIDType THEN JsonValue(String, NewUUIDAsString(9))
    ELSE IF type = DateTimeType THEN JsonValue(String, NowRFC3339Nano(9))
    ELSE IF type = ByteType THEN JsonValue(String, base64Encode(<<121>>))
    ELSE JsonValue(String, <<120>>)
FieldValues(type) ==
    {JsonAbsent, JsonValue(Null, <<110, 117, 108, 108>>), zeroValue(type), nonZeroValue(type)}

CounterStarts == {0, 7}

GenIdleState ==
    /\ gen = [r \in Runs |-> IdleGenerator]
    /\ gIssued = <<>>

\* An index of up to MaxKeyFields fields of the kinds given and a document
\* with a value for each of them.
GenInputs(kinds) ==
    \E n \in 1..MaxKeyFields :
      \E ks \in [1..n -> kinds] :
        /\ gIndex = [i \in 1..n |-> Field(104 + i, ks[i][1], ks[i][2])]
        /\ \E d \in [1..n -> UNION {FieldValues(t) : t \in {k[1] : k \in kinds}}] :
              /\ \A i \in 1..n : d[i] \in FieldValues(ks[i][1])
              /\ gInput = [name \in {104 + i : i \in 1..n} |-> d[name - 104]]

GenInit ==
    /\ GenInputs(FieldKinds)
    /\ gCounter = 0
    /\ GenIdleState

\* The first run: newKeyGenerator over the caller's document, then generate.
GenerateOp ==
    /\ gen[1].status = "idle"
    /\ \E rs \in OutcomeLists(gIndex) :
          \E o \in {generate(newKeyGenerator(gInput, 0), gIndex, rs, gCounter)} :
              /\ gen' = [gen EXCEPT ![1] = o.k]
              /\ gCounter' = o.counter
              /\ gIssued' = gIssued \o [i \in 1..Len(o.k.counters) |->
                                            [run |-> 1, value |-> o.k.counters[i]]]
    /\ UNCHANGED <<gIndex, gInput, nonGenVars>>

\* The second run: newKeyGenerator over the document of the first run, then
\* generate.
RegenerateOp ==
    /\ gen[1].status = "done"
    /\ gen[2].status = "idle"
    /\ \E rs \in OutcomeLists(gIndex) :
          \E o \in {generate(newKeyGenerator(gen[1].document, 1), gIndex, rs, gCounter)} :
              /\ gen' = [gen EXCEPT ![2] = o.k]
              /\ gCounter' = o.counter
              /\ gIssued' = gIssued \o [i \in 1..Len(o.k.counters) |->
                                            [run |-> 2, value |-> o.k.counters[i]]]
    /\ UNCHANGED <<gIndex, gInput, nonGenVars>>

\* Concurrent runs: the kinds of field whose generation touches the counter
\* or not, with and without a value in the document.
CounterFieldKinds == {<<Int32Type, TRUE>>, <<Int32Type, FALSE>>, <<UUIDType, TRUE>>}

CounterInit ==
    /\ GenInputs(CounterFieldKinds)
    /\ gCounter \in CounterStarts
    /\ GenIdleState

\* A run over the caller's document processes its next field; the runs
\* interleave between fields.
StepOp(run) ==
    /\ gen[run].status \in {"idle", "running"}
    /\ LET k == IF gen[run].status = "idle" THEN newKeyGenerator(gInput, 0) ELSE gen[run]
       IN  \E r \in Outcomes(gIndex[Len(k.indexParts) + 1]) :
              \E o \in {generateField(k, gIndex, r, gCounter)} :
                  /\ gen' = [gen EXCEPT ![run] = o.k]
                  /\ gCounter' = o.counter
                  /\ gIssued' = IF Len(o.k.counters) > Len(k.counters)
                                THEN Append(gIssued,
                                            [run |-> run, value |-> o.k.counters[Len(o.k.counters)]])
                                ELSE gIssued
    /\ UNCHANGED <<gIndex, gInput, nonGenVars>>

(***************************************************************************)
(* Properties of the key generator.                                        *)
(***************************************************************************)
\* C7: a second run of the key generator over the document a first,
\* successful run produced succeeds, generates no value, leaves the counter
\* and the document alone, does not set forceInsert and returns the key of
\* the first run.
C7_GenerateIdempotent ==
    gen[2].status \in {"done", "failed"} =>
        /\ gen[2].status = "done"
        /\ gen[2].generated = 0
        /\ gen[2].counters = <<>>
        /\ gCounter = gen[1].counterAfter
        /\ gen[2].document = gen[1].document
        /\ ~gen[2].forceInsert
        /\ gen[2].key = gen[1].key

\* C7 witness: the first run generated a Byte and an Int32 key part from a
\* document without them, and the second run is over.
C7_Witness ==
    /\ gen[2].status = "done"
    /\ gen[1].generated = 2
    /\ gen[1].counters # <<>>
    /\ \E i \in 1..Len(gIndex) : gIndex[i].Type = ByteType
    /\ gen[1].document # gInput

\* The value of field p of the index in the caller's document.
inputOf(p) == gInput[gIndex[p].FieldName]

\* The value of field p in the caller's document is missing, JSON null or the
\* zero value of the field's type.
MissingNullOrZero(p) ==
    \/ inputOf(p) = JsonAbsent
    \/ inputOf(p).dtp = Null
    \/ /\ gIndex[p].Type \in {Int32Type, Int64Type}
       /\ inputOf(p).val = <<48>>
    \/ /\ gIndex[p].Type = UUIDType
       /\ inputOf(p).val = zeroUUIDStringSlice
    \/ /\ gIndex[p].Type = DateTimeType
       /\ inputOf(p).val = zeroTimeStringSlice
    \/ /\ gIndex[p].Type \in {StringType, ByteType}
       /\ inputOf(p).val = <<>>

\* Field p cannot be keyed: it is missing and not autoGenerate, or it must be
\* generated and its type is none of the six that get generates.
Unkeyable(p) ==
    \/ ~gIndex[p].Auto /\ inputOf(p) = JsonAbsent
    \/ /\ gIndex[p].Auto /\ MissingNullOrZero(p)
       /\ gIndex[p].Type \notin {StringType, UUIDType, ByteType, DateTimeType, Int64Type, Int32Type}

\* C14: when the run over the caller's document reaches a field that is
\* missing and not autoGenerate, or that must be generated and has an
\* unsupported type, generate fails with InvalidArgument and returns no key;
\* that field and the fields after it are not processed: they add no key
\* part, no response entry, no generated value and no counter increment, and
\* keep their value in the generator's document.
C14_GenerateFailsAtUnkeyableField ==
    gen[1].status \in {"done", "failed"} =>
        \A p \in 1..Len(gIndex) :
            (Unkeyable(p) /\ Len(gen[1].indexParts) >= p - 1) =>
                /\ gen[1].status = "failed"
                /\ gen[1].err = InvalidArgument
                /\ gen[1].key = NilKey.key
                /\ Len(gen[1].indexParts) = p - 1
                /\ Len(gen[1].keysForResp) = p - 1
                /\ gen[1].generated <= p - 1
                /\ Len(gen[1].counters) <= p - 1
                /\ gCounter = Len(gen[1].counters)
                /\ \A q \in p..Len(gIndex) :
                      gen[1].document[gIndex[q].FieldName] = inputOf(q)

\* C14 witness: the run failed at a first field of an unsupported generated
\* type, before a second field whose generation would have taken a counter
\* value.
C14_Witness ==
    /\ gen[1].status = "failed" /\ gen[1].err = InvalidArgument
    /\ Len(gIndex) = 2
    /\ gIndex[1].Type = DoubleType /\ gIndex[1].Auto /\ inputOf(1) = JsonAbsent
    /\ gIndex[2].Type = Int32Type /\ gIndex[2].Auto /\ inputOf(2) = JsonAbsent
    /\ gCounter = 0

\* Field p is autoGenerate and its value in the caller's document is missing,
\* JSON null or the zero value of its type.
MustGenerate(p) == gIndex[p].Auto /\ MissingNullOrZero(p)

\* C18: for every field the run over the caller's document processed, the
\* value of the field was generated (the document holds a new value and the
\* key part is not the document's) if and only if the field is autoGenerate
\* and its value was missing, null or the zero value of its type; otherwise
\* the document keeps the value and the key part is that value.  The field a
\* failed run stopped at keeps its value too.
C18_GenerationTrigger ==
    gen[1].status \in {"done", "failed"} =>
        /\ \A p \in 1..Len(gen[1].indexParts) :
              IF MustGenerate(p)
              THEN /\ gen[1].document[gIndex[p].FieldName] # inputOf(p)
                   /\ gen[1].document[gIndex[p].FieldName].dtp \in {String, Number}
                   /\ ~isNull(gIndex[p].Type, gen[1].document[gIndex[p].FieldName].val)
              ELSE /\ gen[1].document[gIndex[p].FieldName] = inputOf(p)
                   /\ gen[1].indexParts[p] = NewValue(gIndex[p].Type, inputOf(p).val).v
        /\ gen[1].generated = Cardinality({p \in 1..Len(gen[1].indexParts) : MustGenerate(p)})
        /\ \A p \in (Len(gen[1].indexParts) + 1)..Len(gIndex) :
              gen[1].document[gIndex[p].FieldName] = inputOf(p)

\* C18 witness: a run is done that generated an Int64 field from the zero
\* value "0" and kept the non-zero value of an autoGenerate UUID field.
C18_Witness ==
    /\ gen[1].status = "done" /\ Len(gIndex) = 2
    /\ gIndex[1].Type = Int64Type /\ gIndex[1].Auto
    /\ inputOf(1) = JsonValue(Number, zeroIntStringSlice)
    /\ gen[1].document[gIndex[1].FieldName] # inputOf(1)
    /\ gIndex[2].Type = UUIDType /\ gIndex[2].Auto
    /\ inputOf(2) = nonZeroValue(UUIDType)
    /\ gen[1].document[gIndex[2].FieldName] = inputOf(2)
    /\ gen[1].generated = 1

\* C19: after a successful run over the caller's document, forceInsert is set
\* if and only if a field of type Int64 or DateTime was generated in the run;
\* it is not set when every key part came from the document or when only
\* String, UUID, Byte or Int32 parts were generated.  A second run over the
\* produced document generates nothing and does not set it.
C19_ForceInsertHint ==
    /\ gen[1].status = "done" =>
          (gen[1].forceInsert <=>
              \E p \in 1..Len(gIndex) :
                  /\ gIndex[p].Type \in {Int64Type, DateTimeType}
                  /\ MustGenerate(p)
                  /\ gen[1].document[gIndex[p].FieldName] # inputOf(p))
    /\ gen[1].status = "done" =>
          ((\A p \in 1..Len(gIndex) : gen[1].document[gIndex[p].FieldName] = inputOf(p))
              => ~gen[1].forceInsert)
    /\ gen[2].status = "done" => ~gen[2].forceInsert

\* C19 witness: a run is done that generated an Int32 and a DateTime field and
\* set forceInsert.
C19_Witness ==
    /\ gen[1].status = "done" /\ Len(gIndex) = 2
    /\ gIndex[1].Type = Int32Type /\ gIndex[2].Type = DateTimeType
    /\ gen[1].generated = 2
    /\ gen[1].forceInsert

\* The document run was created over: the caller's for the first run, the
\* document the first run produced for the second.
documentGiven(run) == IF run = 1 THEN gInput ELSE gen[1].document

\* C20: after generate, successful or failed, the slice passed to
\* newKeyGenerator holds the bytes it held before; a run that generated a value
\* holds its document in a slice of its own, and a run that generated none
\* still holds the slice it was given, unchanged.
C20_CallerDocumentUntouched ==
    \A run \in Runs :
        gen[run].status \in {"done", "failed"} =>
            /\ gen[run].caller = documentGiven(run)
            /\ gen[run].generated > 0 => ~gen[run].aliased
            /\ gen[run].generated = 0 =>
                  (gen[run].aliased /\ gen[run].document = documentGiven(run))

\* C20 witness: a run failed at its second field after it generated the
\* first; its document differs from the caller's, which is as it was.
C20_Witness ==
    /\ gen[1].status = "failed" /\ gen[1].generated = 1
    /\ gen[1].document # gInput
    /\ gen[1].caller = gInput
    /\ ~gen[1].aliased

\* C8: the counter values handed to the runs are the successive values of the
\* counter (the i-th value handed out is the start value plus i), so no two
\* are equal and k generations advance the counter by k; each run's Int32 key
\* parts and document fields are the values it was handed.
C8_CounterValuesSuccessive ==
    /\ \A i \in 1..Len(gIssued) : gIssued[i].value = gCounter - Len(gIssued) + i
    /\ \A i \in 1..Len(gIssued), j \in 1..Len(gIssued) :
          i # j => gIssued[i].value # gIssued[j].value
    /\ \A run \in Runs :
          /\ SelectSeq(gIssued, LAMBDA x : x.run = run)
                = [i \in 1..Len(gen[run].counters) |->
                      [run |-> run, value |-> gen[run].counters[i]]]
          /\ \A i \in 1..Len(gen[run].counters) :
                \E p \in 1..Len(gen[run].indexParts) :
                    /\ gen[run].indexParts[p] = IntPart(gen[run].counters[i])
                    /\ gen[run].document[gIndex[p].FieldName]
                          = JsonValue(Number, itoa(gen[run].counters[i]))

\* C8 witness: two runs are done, each generated two Int32 parts, and their
\* counter increments interleaved.
C8_Witness ==
    /\ \A run \in Runs : gen[run].status = "done" /\ Len(gen[run].counters) = 2
    /\ Len(gIssued) = 4
    /\ gIssued[1].run = 1 /\ gIssued[2].run = 2 /\ gIssued[3].run = 1 /\ gIssued[4].run = 2

(***************************************************************************)
(* The realtime message reader (ReadMessagesRunner.Run).  Ids and          *)
(* positions are texts (byte sequences): "<ms>-<seq>", or "$".             *)
(***************************************************************************)
MaxMsgs == 3
MaxLimit == 2

\* The error of the channel's stream, and of decoding or sending a message.
ErrStream == "streamError"
ErrSend == "sendError"

\* The position "$": the messages that arrive from now on.
CurrentPosition == <<36>>

\* The id of the message (ms, seq) as the stream writes it.
streamId(ms, seq) == itoa(ms) \o <<45>> \o itoa(seq)

\* strings.Split(s, sep) for a separator of one byte.
RECURSIVE stringsSplit(_, _)
stringsSplit(s, sep) ==
    IF \A i \in 1..Len(s) : s[i] # sep THEN <<s>>
    ELSE LET i == CHOOSE j \in 1..Len(s) : s[j] = sep /\ \A h \in 1..(j - 1) : s[h] # sep
         IN  <<SubSeq(s, 1, i - 1)>> \o stringsSplit(SubSeq(s, i + 1, Len(s)), sep)

\* strconv.ParseInt(s, 10, 64) with its error dropped: 0 for a text that is
\* no number.
ParseInt(b) == IF isDecimal(b) THEN atoi(b) ELSE 0

\* The position of the next read when the last id sent was id.
nextPos_sameId(id) == id

\* The position of the next read after a batch whose last message has id:
\* the id with its sequence number incremented.
nextPos(id) ==
    LET split == stringsSplit(id, 45)
        incrId == ParseInt(stringsSplit(id, 45)[2])
    IN  split[1] \o <<45>> \o itoa(incrId + 1)

\* The (ms, seq) a position or id denotes, as the stream reads it; a position
\* without sequence number denotes sequence number 0.
idPair(pos) ==
    LET split == stringsSplit(pos, 45)
    IN  <<ParseInt(split[1]), IF Len(split) > 1 THEN ParseInt(split[2]) ELSE 0>>

idLess(a, b) ==
    \/ idPair(a)[1] < idPair(b)[1]
    \/ idPair(a)[1] = idPair(b)[1] /\ idPair(a)[2] < idPair(b)[2]

\* The ids a publisher can give the next message: the millisecond of the last
\* one with the next sequence number, or a later millisecond.
NextIds(stream) ==
    IF stream = <<>> THEN {streamId(1, 0), streamId(9, 9)}
    ELSE LET l == idPair(stream[Len(stream)])
         IN  {streamId(l[1], l[2] + 1), streamId(l[1] + 1, 0)}

\* channel.Read(ctx, pos): up to n of the messages of the stream from pos on,
\* in stream order; arrived are the messages that came in while the read was
\* waiting at "$".  exists is false when there is none; fail is the stream
\* failing.  Whether the message at pos itself is one of them is inclusive.
channelRead(stream, arrived, pos, inclusive, n, fail) ==
    LET from == IF pos = CurrentPosition THEN arrived
                ELSE SelectSeq(stream \o arrived,
                               LAMBDA m : idLess(pos, m) \/ (inclusive /\ idPair(m) = idPair(pos)))
    IN  IF from = <<>> THEN [exists |-> FALSE, err |-> OK, messages |-> <<>>]
        ELSE IF fail THEN [exists |-> TRUE, err |-> ErrStream, messages |-> <<>>]
        ELSE [exists |-> TRUE, err |-> OK,
              messages |-> SubSeq(from, 1, IF n < Len(from) THEN n ELSE Len(from))]

RtIdle ==
    /\ rtStream = <<>>
    /\ rtInclusive = FALSE
    /\ rtStart = <<>>
    /\ rtLimit = 0
    /\ rtStatus = "idle"
    /\ rtPos = <<>>
    /\ rtCount = 0
    /\ rtBatch = <<>>
    /\ rtId = <<>>
    /\ rtErr = OK
    /\ rtSent = <<>>

\* A request with or without a start position and limit, over a channel
\* without messages yet.
RtInit ==
    /\ rtStream = <<>>
    /\ rtInclusive \in BOOLEAN
    /\ rtStart \in {<<>>, streamId(0, 0)}
    /\ rtLimit \in 0..MaxLimit
    /\ rtStatus = "idle"
    /\ rtPos = <<>>
    /\ rtCount = 0
    /\ rtBatch = <<>>
    /\ rtId = <<>>
    /\ rtErr = OK
    /\ rtSent = <<>>

\* Run returns err.
rtReturn(err) ==
    /\ rtStatus' = "returned"
    /\ rtErr' = err

\* A publisher appends a message to the stream (channel.PublishMessage).
PublishOp ==
    /\ Len(rtStream) < MaxMsgs
    /\ \E id \in NextIds(rtStream) : rtStream' = Append(rtStream, id)
    /\ UNCHANGED <<rtInclusive, rtStart, rtLimit, rtStatus, rtPos, rtCount, rtBatch, rtId,
                   rtErr, rtSent, nonRtVars>>

\* Run up to its loop: the project and the channel are looked up (fail: one
\* of them is not there), pos is the start position or "$".
StartOp ==
    /\ rtStatus = "idle"
    /\ \E fail \in BOOLEAN :
          IF fail
          THEN rtReturn(NotFound) /\ UNCHANGED <<rtPos, rtCount>>
          ELSE /\ rtPos' = IF Len(rtStart) = 0 THEN CurrentPosition ELSE rtStart
               /\ rtCount' = 0
               /\ rtStatus' = "reading"
               /\ rtErr' = rtErr
    /\ UNCHANGED <<rtStream, rtInclusive, rtStart, rtLimit, rtBatch, rtId, rtSent, nonRtVars>>

\* One channel.Read of the loop; a read at "$" may see a message arrive.
ReadOp ==
    /\ rtStatus = "reading"
    /\ \E fail \in BOOLEAN, n \in 1..MaxMsgs :
       \E arrived \in {<<>>} \cup (IF rtPos = CurrentPosition /\ Len(rtStream) < MaxMsgs
                                   THEN {<<id>> : id \in NextIds(rtStream)} ELSE {}) :
          LET resp == channelRead(rtStream, arrived, rtPos, rtInclusive, n, fail)
          IN  /\ rtStream' = rtStream \o arrived
              /\ IF ~resp.exists THEN rtReturn(OK) /\ UNCHANGED <<rtBatch, rtId>>
                 ELSE IF resp.err # OK THEN rtReturn(resp.err) /\ UNCHANGED <<rtBatch, rtId>>
                 ELSE /\ rtBatch' = resp.messages
                      /\ rtId' = <<>>
                      /\ rtStatus' = "sending"
                      /\ rtErr' = rtErr
    /\ UNCHANGED <<rtInclusive, rtStart, rtLimit, rtPos, rtCount, rtSent, nonRtVars>>

\* One round of the loop over resp.Messages: the message is decoded and sent
\* (fail: one of the two fails), counted, and tested against the limit; after
\* the last message of resp, pos moves behind id.
SendOp ==
    /\ rtStatus = "sending"
    /\ \E fail \in BOOLEAN :
          LET m == Head(rtBatch)
          IN  IF fail
              THEN rtReturn(ErrSend) /\ UNCHANGED <<rtPos, rtCount, rtBatch, rtId, rtSent>>
              ELSE /\ rtSent' = Append(rtSent, m)
                   /\ rtCount' = rtCount + 1
                   /\ IF rtLimit > 0 /\ rtCount + 1 = rtLimit
                      THEN rtReturn(OK) /\ UNCHANGED <<rtPos, rtBatch, rtId>>
                      ELSE /\ rtId' = m
                           /\ rtBatch' = Tail(rtBatch)
                           /\ rtErr' = rtErr
                           /\ IF Tail(rtBatch) = <<>>
                              THEN /\ rtPos' = IF Len(m) > 0 THEN nextPos(m) ELSE rtPos
                                   /\ rtStatus' = "reading"
                              ELSE UNCHANGED <<rtPos, rtStatus>>
    /\ UNCHANGED <<rtStream, rtInclusive, rtStart, rtLimit, nonRtVars>>

(***************************************************************************)
(* Properties of the realtime message reader.                              *)
(***************************************************************************)
\* The place of an id in the stream.
streamIndex(id) == CHOOSE i \in 1..Len(rtStream) : rtStream[i] = id

\* C24: the messages Run sent are messages of the stream, each sent once and
\* in stream order; with a limit L > 0 at most L are sent and Run has returned
\* without error once the L-th is sent; and whenever Run is about to read
\* after it sent a message, pos is the id of the last message sent with its
\* sequence number incremented by one.
C24_SentOnceInOrderWithinLimit ==
    /\ \A i \in 1..Len(rtSent) : \E h \in 1..Len(rtStream) : rtStream[h] = rtSent[i]
    /\ \A i \in 1..Len(rtSent), j \in 1..Len(rtSent) :
          i < j => streamIndex(rtSent[i]) < streamIndex(rtSent[j])
    /\ rtCount = Len(rtSent)
    /\ rtLimit > 0 =>
          /\ Len(rtSent) <= rtLimit
          /\ Len(rtSent) = rtLimit => (rtStatus = "returned" /\ rtErr = OK)
    /\ (rtStatus = "reading" /\ rtSent # <<>>) =>
          \E ms \in 0..(9 + MaxMsgs), seq \in 0..(9 + MaxMsgs) :
              /\ rtSent[Len(rtSent)] = streamId(ms, seq)
              /\ rtPos = streamId(ms, seq + 1)

\* C24 witness: a run with limit 2 reading from "$" sent the message 9-9 from
\* one read and the message 9-10, published at the very position of the next
\* read, from a later one, and returned.
C24_Witness ==
    /\ rtStatus = "returned" /\ rtErr = OK
    /\ rtLimit = 2 /\ rtStart = <<>> /\ rtInclusive
    /\ rtSent = <<streamId(9, 9), streamId(9, 10)>>

(***************************************************************************)
(* Specifications.                                                         *)
(***************************************************************************)
MetaIdle ==
    /\ kv = [k \in {} |-> NoData]
    /\ metaRes = Result("none", <<1, 1, 1, "x">>, NilMetadata, OK, FALSE, NilMetadata,
                        EmptyIndexes, FALSE)
    /\ inserted = [k \in {} |-> NilMetadata]
    /\ fresh = TRUE

CodecIdle ==
    /\ ck1 = NewKey(<<>>, <<>>)
    /\ ck2 = NewKey(<<>>, <<>>)
    /\ codecRes = CodecIdleRes

GenIdle ==
    /\ gIndex = <<>>
    /\ gInput = [n \in {} |-> JsonAbsent]
    /\ gCounter = 0
    /\ GenIdleState

PlanIdle ==
    /\ pColl = <<>>
    /\ pFilters = <<>>
    /\ pRes = PlanIdleRes

ReaderIdle ==
    /\ rIndex = <<>>
    /\ rPrimary = primaryRows({})
    /\ rPos = 0
    /\ rKvErr = OK
    /\ rErr = OK
    /\ rLast = ReaderIdleLast
    /\ rEmitted = <<>>
    /\ rCalls = 0

MetaNext == InsertOp \/ GetOp \/ UpdateOp \/ DeleteOp \/ SoftDeleteOp \/ ListOp

MetaSpecInit == MetaInit /\ CodecIdle /\ ReaderIdle /\ PlanIdle /\ GenIdle /\ RtIdle

MetaSpec == MetaSpecInit /\ [][MetaNext]_vars

StoredNext == GetOp \/ ListOp

StoredSpecInit == StoredInit /\ CodecIdle /\ ReaderIdle /\ PlanIdle /\ GenIdle /\ RtIdle

StoredSpec == StoredSpecInit /\ [][StoredNext]_vars

RtNext == PublishOp \/ StartOp \/ ReadOp \/ SendOp

RtSpecInit == RtInit /\ MetaIdle /\ CodecIdle /\ ReaderIdle /\ PlanIdle /\ GenIdle

RtSpec == RtSpecInit /\ [][RtNext]_vars

CodecNext == SerializeOp \/ DecodeOp

CodecSpecInit == CodecInit /\ MetaIdle /\ ReaderIdle /\ PlanIdle /\ GenIdle /\ RtIdle

CodecSpec == CodecSpecInit /\ [][CodecNext]_vars

ReaderNext == NextOp

ReaderSpecInit == ReaderInit /\ MetaIdle /\ CodecIdle /\ PlanIdle /\ GenIdle /\ RtIdle

ReaderSpec == ReaderSpecInit /\ [][ReaderNext]_vars

PlanNext == BuildOp

PlanSpecInit == PlanInit /\ MetaIdle /\ CodecIdle /\ ReaderIdle /\ GenIdle /\ RtIdle

PlanSpec == PlanSpecInit /\ [][PlanNext]_vars

GenNext == GenerateOp \/ RegenerateOp

GenSpecInit == GenInit /\ MetaIdle /\ CodecIdle /\ ReaderIdle /\ PlanIdle /\ RtIdle

GenSpec == GenSpecInit /\ [][GenNext]_vars

CounterNext == \E run \in Runs : StepOp(run)

CounterSpecInit == CounterInit /\ MetaIdle /\ CodecIdle /\ ReaderIdle /\ PlanIdle /\ RtIdle

CounterSpec == CounterSpecInit /\ [][CounterNext]_vars

====
